---------------------------- MODULE Spec2Model ----------------------------
(***************************************************************************)
(* Model of the skeletal pose engine of RayMarching: the Skeleton class    *)
(* (skeleton.py), the render-side read of its arrays (visualization.py)    *)
(* and the threads that call it (osc_control.py, raymarching.py).          *)
(*                                                                         *)
(* Numbers.  numpy computes in float64.  The model computes exactly in the *)
(* numbers (n/d)*sqrt(r), r squarefree, plus NaN.  A value the code would  *)
(* compute that is not of this form is the marker Irr; the inputs the      *)
(* model draws are chosen so that Irr is never stored (invariant Exact).   *)
(* Floating-point rounding is not modelled.                                *)
(***************************************************************************)
EXTENDS Integers, Sequences, FiniteSets, TLC

(***************************************************************************)
(* Exact arithmetic                                                        *)
(***************************************************************************)
\* Euclid's algorithm, three steps per level
RECURSIVE GCD(_, _)
GCD(a, b) ==
    IF b = 0 THEN a
    ELSE IF a % b = 0 THEN b
    ELSE IF b % (a % b) = 0 THEN a % b
    ELSE GCD(b % (a % b), (a % b) % (b % (a % b)))

Abs(i) == IF i < 0 THEN -i ELSE i

Minimum(S) == CHOOSE x \in S : \A y \in S : x <= y
Maximum(S) == CHOOSE x \in S : \A y \in S : x >= y

\* the largest x in lo..hi with x * x <= m, by bisection (lo * lo <= m)
RECURSIVE Bisect(_, _, _)
Bisect(m, lo, hi) ==
    IF lo >= hi THEN lo
    ELSE LET mid == (lo + hi + 1) \div 2
         IN IF mid * mid <= m THEN Bisect(m, mid, hi)
            ELSE Bisect(m, lo, mid - 1)
Isqrt(m) == Bisect(m, 0, Minimum({m, 46340}))

\* the largest k with k*k dividing m, m >= 1
SqPart(m) == Maximum({k \in 1 .. Isqrt(m) : m % (k * k) = 0})

NaN == [n |-> 0, d |-> 0, r |-> 0]
Irr == [n |-> 1, d |-> 0, r |-> 0]
Zero == [n |-> 0, d |-> 1, r |-> 1]
One == [n |-> 1, d |-> 1, r |-> 1]

IsNaN(x) == x.d = 0 /\ x.n = 0
IsNum(x) == x.d > 0

\* the table of a function: every entry evaluated once
Table(f) == f @@ <<>>

\* (n/d)*sqrt(r) in lowest terms, r already squarefree, d > 0
MkQ(n, d, r) ==
    IF n = 0 THEN Zero
    ELSE LET g == GCD(Abs(n), d) IN [n |-> n \div g, d |-> d \div g, r |-> r]

\* (n/d)*sqrt(r) for any r >= 0
Mk(n, d, r) ==
    IF n = 0 \/ r = 0 THEN Zero
    ELSE LET k == SqPart(r) IN MkQ(n * k, d, r \div (k * k))

Rat(n, d) == MkQ(n, d, 1)
Int2Num(i) == [n |-> i, d |-> 1, r |-> 1]

\* Every operator below that uses an argument more than once binds it first:
\* the bound variable carries the argument's value, which is then computed
\* once wherever the operator is evaluated.
Neg(a0) ==
    CHOOSE val \in {
         (IF IsNum(a) THEN [a EXCEPT !.n = -a.n] ELSE a)
        : a \in {a0}} : TRUE

Add(a0, b0) ==
    CHOOSE val \in {
         (IF a.d > 0 /\ b.d > 0
          THEN IF a.n = 0 THEN b
               ELSE IF b.n = 0 THEN a
               ELSE IF a.r = b.r THEN MkQ(a.n * b.d + b.n * a.d, a.d * b.d, a.r)
               ELSE Irr
          ELSE IF IsNaN(a) \/ IsNaN(b) THEN NaN
          ELSE Irr)
        : a \in {a0}, b \in {b0}} : TRUE

Sub(a, b) == Add(a, Neg(b))

Mul(a0, b0) ==
    CHOOSE val \in {
         (IF a.d > 0 /\ b.d > 0
          THEN IF a.n = 0 \/ b.n = 0 THEN Zero
               ELSE IF a.r = 1 /\ b.r = 1 THEN MkQ(a.n * b.n, a.d * b.d, 1)
               ELSE LET g == GCD(a.r, b.r)
                    IN MkQ(a.n * b.n * g, a.d * b.d, (a.r \div g) * (b.r \div g))
          ELSE IF IsNaN(a) \/ IsNaN(b) THEN NaN
          ELSE Irr)
        : a \in {a0}, b \in {b0}} : TRUE

\* numpy: 0/0 is nan; x/0 for x # 0 is +-inf, which is outside the model
Div(a0, b0) ==
    CHOOSE val \in {
         (IF IsNaN(a) \/ IsNaN(b) THEN NaN
          ELSE IF ~IsNum(a) \/ ~IsNum(b) THEN Irr
          ELSE IF b.n = 0 THEN (IF a.n = 0 THEN NaN ELSE Irr)
          ELSE Mul(a, MkQ((IF b.n < 0 THEN -1 ELSE 1) * b.d, Abs(b.n) * b.r, b.r)))
        : a \in {a0}, b \in {b0}} : TRUE

Sgn(a) == IF a.n > 0 THEN 1 ELSE IF a.n < 0 THEN -1 ELSE 0

\* sqrt of a non-negative rational
Sqrt(a0) ==
    CHOOSE val \in {
         (IF IsNaN(a) THEN NaN
          ELSE IF ~IsNum(a) THEN Irr
          ELSE IF a.n < 0 THEN NaN
          ELSE IF a.r # 1 THEN Irr
          ELSE Mk(1, a.d, a.n * a.d))
        : a \in {a0}} : TRUE

\* a < b: by the difference when it is a model number, else by the squares
\* (the squares of the model's numbers are rational)
SqLt(a, b) == a.n * a.n * a.r * b.d * b.d < b.n * b.n * b.r * a.d * a.d
Lt(a0, b0) ==
    CHOOSE val \in {
         (IF ~IsNum(a) \/ ~IsNum(b) THEN FALSE
          ELSE IF a.n = 0 \/ b.n = 0 \/ a.r = b.r THEN Sgn(Sub(a, b)) < 0
          ELSE IF Sgn(a) # Sgn(b) THEN Sgn(a) < Sgn(b)
          ELSE IF Sgn(a) > 0 THEN SqLt(a, b)
          ELSE SqLt(b, a))
        : a \in {a0}, b \in {b0}} : TRUE

\* x < eps for a tiny positive float eps = 1/epsDen: a positive model number
\* (n/d)*sqrt(r) is at least n/d, so it is below eps only if d > epsDen * n
BelowEps(x, epsDen) ==
    IF ~IsNum(x) THEN FALSE
    ELSE IF x.n <= 0 THEN TRUE
    ELSE IF x.d \div x.n < epsDen THEN FALSE
    ELSE x.n * x.n * x.r * epsDen * epsDen < x.d * x.d

(***************************************************************************)
(* numpy / transforms3d operations used by skeleton.py.  A vector is a     *)
(* tuple of numbers, a matrix a tuple of rows, a pose array a function     *)
(* from the joint index 0..N-1 to a vector.                                *)
(***************************************************************************)
VAdd(u0, v0) ==
    CHOOSE val \in {
         (Table([i \in DOMAIN u |-> Add(u[i], v[i])]))
        : u \in {u0}, v \in {v0}} : TRUE
VSub(u0, v0) ==
    CHOOSE val \in {
         (Table([i \in DOMAIN u |-> Sub(u[i], v[i])]))
        : u \in {u0}, v \in {v0}} : TRUE
VScale(u0, a0) ==
    CHOOSE val \in {
         (Table([i \in DOMAIN u |-> Mul(u[i], a)]))
        : u \in {u0}, a \in {a0}} : TRUE
VDiv(u0, a0) ==
    CHOOSE val \in {
         (Table([i \in DOMAIN u |-> Div(u[i], a)]))
        : u \in {u0}, a \in {a0}} : TRUE

\* the sum of u[i] * v[i] over the first k entries
RECURSIVE DotTo(_, _, _)
DotTo(u, v, k) ==
    IF k = 0 THEN Zero ELSE Add(DotTo(u, v, k - 1), Mul(u[k], v[k]))
Dot(u0, v0) ==
    CHOOSE val \in {
         (DotTo(u, v, Len(u)))
        : u \in {u0}, v \in {v0}} : TRUE

\* np.linalg.norm of a vector
norm(v) == Sqrt(Dot(v, v))

\* the sum of the numbers f[lo], ..., f[hi], by halves
RECURSIVE SumNums(_, _, _)
SumNums(f, lo, hi) ==
    IF lo > hi THEN Zero
    ELSE IF lo = hi THEN f[lo]
    ELSE LET mid == (lo + hi) \div 2
         IN Add(SumNums(f, lo, mid), SumNums(f, mid + 1, hi))

\* the sum of the integers f[lo], ..., f[hi], by halves
RECURSIVE SumInts(_, _, _)
SumInts(f, lo, hi) ==
    IF lo > hi THEN 0
    ELSE IF lo = hi THEN f[lo]
    ELSE LET mid == (lo + hi) \div 2
         IN SumInts(f, lo, mid) + SumInts(f, mid + 1, hi)

\* np.linalg.norm of a whole 2-D array: one scalar over every entry (Frobenius)
arrayNorm(a, rows) ==
    Sqrt(SumNums(Table([k \in 0 .. (rows - 1) |-> Dot(a[k], a[k])]),
                 0, rows - 1))

eye3 == << <<One, Zero, Zero>>, <<Zero, One, Zero>>, <<Zero, Zero, One>> >>
eye4 == << <<One, Zero, Zero, Zero>>, <<Zero, One, Zero, Zero>>,
           <<Zero, Zero, One, Zero>>, <<Zero, Zero, Zero, One>> >>
zeros44 == << <<Zero, Zero, Zero, Zero>>, <<Zero, Zero, Zero, Zero>>,
             <<Zero, Zero, Zero, Zero>>, <<Zero, Zero, Zero, Zero>> >>
ones3 == <<One, One, One>>

\* t3d.affines.compose(T, R, Z): rotation R scaled by Z, translation T
composeRow(T, R, Z, i) ==
    <<Mul(R[i][1], Z[1]), Mul(R[i][2], Z[2]), Mul(R[i][3], Z[3]), T[i]>>
compose(T0, R0, Z0) ==
    CHOOSE val \in {
         (<< composeRow(T, R, Z, 1), composeRow(T, R, Z, 2), composeRow(T, R, Z, 3),
             <<Zero, Zero, Zero, One>> >>)
        : T \in {T0}, R \in {R0}, Z \in {Z0}} : TRUE

matmulEntry(A, B, i, j) ==
    Add(Add(Mul(A[i][1], B[1][j]), Mul(A[i][2], B[2][j])),
        Add(Mul(A[i][3], B[3][j]), Mul(A[i][4], B[4][j])))
matmulRow(A, B, i) ==
    <<matmulEntry(A, B, i, 1), matmulEntry(A, B, i, 2),
      matmulEntry(A, B, i, 3), matmulEntry(A, B, i, 4)>>
matmul(A0, B0) ==
    CHOOSE val \in {
         (<<matmulRow(A, B, 1), matmulRow(A, B, 2), matmulRow(A, B, 3),
            matmulRow(A, B, 4)>>)
        : A \in {A0}, B \in {B0}} : TRUE

transposeRow(A, j) == <<A[1][j], A[2][j], A[3][j], A[4][j]>>
transpose(A0) ==
    CHOOSE val \in {
         (<<transposeRow(A, 1), transposeRow(A, 2), transposeRow(A, 3),
            transposeRow(A, 4)>>)
        : A \in {A0}} : TRUE

\* t3d.quaternions.qmult, quaternions are (w, x, y, z)
qmult(q10, q20) ==
    CHOOSE val \in {
         (LET w1 == q1[1]  x1 == q1[2]  y1 == q1[3]  z1 == q1[4]
              w2 == q2[1]  x2 == q2[2]  y2 == q2[3]  z2 == q2[4]
          IN << Sub(Sub(Sub(Mul(w1, w2), Mul(x1, x2)), Mul(y1, y2)), Mul(z1, z2)),
                Sub(Add(Add(Mul(w1, x2), Mul(x1, w2)), Mul(y1, z2)), Mul(z1, y2)),
                Sub(Add(Add(Mul(w1, y2), Mul(y1, w2)), Mul(z1, x2)), Mul(x1, z2)),
                Sub(Add(Add(Mul(w1, z2), Mul(z1, w2)), Mul(x1, y2)), Mul(y1, x2)) >>)
        : q1 \in {q10}, q2 \in {q20}} : TRUE

\* t3d.quaternions.quat2mat: the rotation matrix of q, whatever the norm of
\* q; identity when the squared norm is below the float epsilon (no positive
\* model number is)
quat2mat(q0) ==
    CHOOSE val \in {
         (LET w == q[1]  x == q[2]  y == q[3]  z == q[4]
              Nq == Dot(q, q)
              s == Div(Int2Num(2), Nq)
              X == Mul(x, s)  Y == Mul(y, s)  Z == Mul(z, s)
              wX == Mul(w, X)  wY == Mul(w, Y)  wZ == Mul(w, Z)
              xX == Mul(x, X)  xY == Mul(x, Y)  xZ == Mul(x, Z)
              yY == Mul(y, Y)  yZ == Mul(y, Z)  zZ == Mul(z, Z)
          IN IF IsNum(Nq) /\ Sgn(Nq) <= 0 THEN eye3
             ELSE << <<Sub(One, Add(yY, zZ)), Sub(xY, wZ), Add(xZ, wY)>>,
                     <<Add(xY, wZ), Sub(One, Add(xX, zZ)), Sub(yZ, wX)>>,
                     <<Sub(xZ, wY), Add(yZ, wX), Sub(One, Add(xX, yY))>> >>)
        : q \in {q0}} : TRUE

\* cos and sin of k * pi/4, k in -1..1 (half of a quarter-turn angle)
CosHalf(k) == IF k = 0 THEN One ELSE Mk(1, 2, 2)
SinHalf(k) == IF k = 0 THEN Zero ELSE Mk(k, 2, 2)

\* t3d.euler.euler2quat(ai, aj, ak, axes='sxyz'), angles in units of pi/2
euler2quat(ai, aj, ak) ==
    LET ci == CosHalf(ai)  si == SinHalf(ai)
        cj == CosHalf(aj)  sj == SinHalf(aj)
        ck == CosHalf(ak)  sk == SinHalf(ak)
        cc == Mul(ci, ck)  cs == Mul(ci, sk)
        sc == Mul(si, ck)  ss == Mul(si, sk)
    IN << Add(Mul(cj, cc), Mul(sj, ss)), Sub(Mul(cj, sc), Mul(sj, cs)),
          Add(Mul(cj, ss), Mul(sj, cc)), Sub(Mul(cj, cs), Mul(sj, sc)) >>

(***************************************************************************)
(* Spherical interpolation                                                 *)
(***************************************************************************)
Half == Rat(1, 2)
Two == Int2Num(2)

\* np.clip(x, -1, 1)
clip(x) == IF Lt(x, Neg(One)) THEN Neg(One) ELSE IF Lt(One, x) THEN One ELSE x

\* sin(u * arccos(c)) for the weights u = 0, 1/2, 1, -1; for any other weight
\* the value is outside the model's numbers
SinOf(u, c) ==
    LET dom == Sqrt(Sub(One, Mul(c, c)))
    IN IF u = Zero THEN Mul(Zero, dom)
       ELSE IF u = One THEN dom
       ELSE IF u = Neg(One) THEN Neg(dom)
       ELSE IF u = Half THEN Sqrt(Div(Sub(One, c), Two))
       ELSE IF IsNaN(u) \/ IsNaN(c) THEN NaN
       ELSE Irr

epsDen == 100000000

\* slerp(q0, q1, t) of one joint, unit=True: no normalisation of the inputs
slerp(q0, q1, t) ==
    LET c == clip(Dot(q0, q1))
        dom == SinOf(One, c)
        va == Div(SinOf(Sub(One, t), c), dom)
        vb == Div(SinOf(t, c), dom)
    IN IF BelowEps(dom, epsDen)
       THEN VAdd(VScale(q0, Sub(One, t)), VScale(q1, t))
       ELSE VAdd(VScale(q0, va), VScale(q1, vb))

slerp_pose(q0, q1, t) ==
    Table([ji \in DOMAIN q0 |-> slerp(q0[ji], q1[ji], t[ji])])

(***************************************************************************)
(* Arrays                                                                  *)
(***************************************************************************)
Rows(a) == Cardinality(DOMAIN a)
\* numpy shape of a 2-D array (an array without rows has no row length)
Shape(a) == IF Rows(a) = 0 THEN <<0, 0>> ELSE <<Rows(a), Len(a[0])>>

\* a python index into a sequence of n entries: negative indices wrap
InRange(i, n) == -n <= i /\ i < n
Wrap(i, n) == IF i < 0 THEN i + n ELSE i

\* array * scalar and array + array
AScale(a, x) == Table([k \in DOMAIN a |-> VScale(a[k], x)])
AAdd(a, b) == Table([k \in DOMAIN a |-> VAdd(a[k], b[k])])
ADiv(a, x) == Table([k \in DOMAIN a |-> VDiv(a[k], x)])

(***************************************************************************)
(* Skeleton (skeleton.py).  A Skeleton object is a record of its fields;   *)
(* a method is an operator from the object (and arguments) to the object   *)
(* after the call together with how the call ended.                        *)
(***************************************************************************)
Joints(sk) == 0 .. (sk.jointCount - 1)

\* number of entries of a python list held as a function on 0..n-1
ListLen(l) == Cardinality(DOMAIN l)

\* the number of children of the parents 0..k of a connectivity list
SumChildren(conn, k) ==
    SumInts(Table([p \in DOMAIN conn |-> Len(conn[p])]), 0, k)

\* Skeleton.__init__; pos0 and rot0 are the values np.random.rand returned
Skeleton(jointFilter, jointConnectivity, pos0, rot0) ==
    LET jointCount == ListLen(jointFilter)
        edgeCount == SumChildren(jointConnectivity,
                                 ListLen(jointConnectivity) - 1)
    IN [ jointFilter |-> jointFilter,
         jointConnectivity |-> jointConnectivity,
         skelTransform |-> eye4,
         skelInvTransform |-> eye4,
         jointCount |-> jointCount,
         jointPositions |-> Table([j \in 0 .. (jointCount - 1) |-> pos0[j]]),
         jointRotations |-> Table([j \in 0 .. (jointCount - 1) |-> rot0[j]]),
         jointTransforms |-> Table([j \in 0 .. (jointCount - 1) |-> zeros44]),
         edgeCount |-> edgeCount,
         edgeTransforms |-> Table([e \in 0 .. (edgeCount - 1) |-> zeros44]),
         edgeLengths |-> Table([e \in 0 .. (edgeCount - 1) |-> One]),
         udateSmoothing |-> Zero ]

\* a setter that also resets the edge count
setUpdateSmoothing_resetsEdgeCount(sk, updateSmoothing) ==
    [sk EXCEPT !.udateSmoothing = updateSmoothing, !.edgeCount = 0]

setUpdateSmoothing(sk, updateSmoothing) ==
    [sk EXCEPT !.udateSmoothing = updateSmoothing]

\* a setPosition that also writes the new root into the origin joint's
\* published transform
setPosition_publishesAtOnce(sk, position) ==
    [sk EXCEPT
        !.skelTransform = compose(position, eye3, ones3),
        !.skelInvTransform = compose(VScale(position, Neg(One)), eye3, ones3),
        !.jointTransforms[0] = transpose(compose(position, eye3, ones3))]

\* a setPosition that moves the root from where it is
setPosition_relative(sk, position) ==
    [sk EXCEPT
        !.skelTransform =
            matmul(@, compose(position, eye3, ones3)),
        !.skelInvTransform =
            matmul(@, compose(VScale(position, Neg(One)), eye3, ones3))]

setPosition(sk, position) ==
    [sk EXCEPT
        !.skelTransform = compose(position, eye3, ones3),
        !.skelInvTransform = compose(VScale(position, Neg(One)), eye3, ones3)]

\* the three fixed rotations of the code: euler2quat(0, pi/2, 0), the
\* realignment shared by all joints and edges and prerotation of the legs
\* and spine; euler2quat(0, 0, pi/2), prerotation of the arms;
\* euler2quat(0, 0, -pi/2), correction of the two hip edges
realign == euler2quat(0, 1, 0)
armPrerotation == euler2quat(0, 0, 1)
hipEdgeCorrection == euler2quat(0, 0, -1)

defaultPos == <<Zero, Zero, Zero>>
defaultRotMat == quat2mat(<<One, Zero, Zero, Zero>>)

\* one iteration of the loop of updateJointTransforms: the value stored
\* into jointTransforms[jI]
JointTransform(sk, jI) ==
    LET jointPosition == sk.jointPositions[jI]
        jointRotation == qmult(realign, sk.jointRotations[jI])
        jointRotMat == compose(defaultPos, quat2mat(jointRotation), ones3)
        jointTransMat == compose(jointPosition, defaultRotMat, ones3)
    IN transpose(matmul(jointRotMat, matmul(sk.skelTransform, jointTransMat)))

updateJointTransforms(sk) ==
    [sk EXCEPT !.jointTransforms =
        Table([jI \in Joints(sk) |-> JointTransform(sk, jI)])]

\* an edge rotation that corrects every edge leaving joint 0
EdgeRotation_correctsRootEdges(sk, pjI, cjI) ==
    LET r0 == sk.jointRotations[pjI]
        r1 == IF pjI = 0 THEN qmult(hipEdgeCorrection, r0) ELSE r0
    IN qmult(realign, r1)

\* the rotation of edge (pjI, cjI): the parent's rotation, the correction of
\* the two hip edges, then the shared realignment
EdgeRotation(sk, pjI, cjI) ==
    LET r0 == sk.jointRotations[pjI]
        r1 == IF pjI = 0 /\ cjI = 1 THEN qmult(hipEdgeCorrection, r0) ELSE r0
        r2 == IF pjI = 0 /\ cjI = 6 THEN qmult(hipEdgeCorrection, r1) ELSE r1
    IN qmult(realign, r2)

\* an edge length measured from the origin to the child
EdgeLength_ofChild(parentJointPos, childJointPos) ==
    norm(childJointPos)

\* one iteration of the inner loop of updateEdgeTransforms
EdgeLength(parentJointPos, childJointPos) ==
    norm(VSub(childJointPos, parentJointPos))

EdgeTransform(sk, pjI, cjI, parentJointPos, childJointPos) ==
    LET edgePos == VDiv(VAdd(parentJointPos, childJointPos), Two)
        edgeRotMat == compose(defaultPos, quat2mat(EdgeRotation(sk, pjI, cjI)),
                              ones3)
        edgeTransMat == compose(edgePos, defaultRotMat, ones3)
    IN transpose(matmul(edgeRotMat, matmul(sk.skelTransform, edgeTransMat)))

\* an inner loop that visits only the first child of every parent
EdgeIterations_firstChildOnly(sk) ==
    LET conn == sk.jointConnectivity
        last == Minimum({sk.jointCount, ListLen(conn)}) - 1
        parents == {p \in 0 .. last : Len(conn[p]) > 0}
        rank(p) == Cardinality({q \in parents : q <= p})
    IN Table([e \in 1 .. Cardinality(parents) |->
                LET p == CHOOSE q \in parents : rank(q) = e
                IN <<p, conn[p][1]>>])

\* the same iterations with each parent's children taken last to first
EdgeIterations_childrenReversed(sk) ==
    LET conn == sk.jointConnectivity
        last == Minimum({sk.jointCount, ListLen(conn)}) - 1
        before == Table([p \in 0 .. last |-> SumChildren(conn, p - 1)])
        parentOf(e) == CHOOSE p \in 0 .. last :
                          before[p] < e /\ e <= before[p] + Len(conn[p])
    IN Table([e \in 1 .. SumChildren(conn, last) |->
                <<parentOf(e),
                  conn[parentOf(e)][Len(conn[parentOf(e)])
                                       - (e - before[parentOf(e)]) + 1]>>])

\* the iterations of the inner loop of updateEdgeTransforms in the order
\* the code runs them: parents ascending, children in list order; iteration
\* e (counted from 1) is <<parent, child>> and works on edge index e - 1.
\* The outer loop runs over the parents below jointCount that have a list.
EdgeIterations(sk) ==
    LET conn == sk.jointConnectivity
        last == Minimum({sk.jointCount, ListLen(conn)}) - 1
        before == Table([p \in 0 .. last |-> SumChildren(conn, p - 1)])
        parentOf(e) == CHOOSE p \in 0 .. last :
                          before[p] < e /\ e <= before[p] + Len(conn[p])
    IN Table([e \in 1 .. SumChildren(conn, last) |->
                <<parentOf(e), conn[parentOf(e)][e - before[parentOf(e)]]>>])

\* the first iteration that raises IndexError (a child index outside the
\* pose array, or an edge index outside the edge arrays); past the end if none
FirstRaising(sk, its) ==
    LET bad == {e \in 1 .. Len(its) :
                   ~InRange(its[e][2], sk.jointCount) \/ e - 1 >= sk.edgeCount}
    IN IF bad = {} THEN Len(its) + 1 ELSE Minimum(bad)

\* updateEdgeTransforms: the loop reads only fields it does not write, so
\* the entries it writes are given per iteration.  eI is the running edge
\* index when the pass ends, raised the exception that ended it early ("" if
\* it ran to the end; a connectivity list shorter than jointCount raises too)
updateEdgeTransforms(sk) ==
    LET its == EdgeIterations(sk)
        stop == FirstRaising(sk, its)
        parentPos(e) == sk.jointPositions[its[e + 1][1]]
        childPos(e) == sk.jointPositions[Wrap(its[e + 1][2], sk.jointCount)]
    IN [ sk |-> [sk EXCEPT
                   !.edgeLengths = Table([e \in DOMAIN @ |->
                       IF e + 1 < stop
                       THEN EdgeLength(parentPos(e), childPos(e))
                       ELSE @[e]]),
                   !.edgeTransforms = Table([e \in DOMAIN @ |->
                       IF e + 1 < stop
                       THEN EdgeTransform(sk, its[e + 1][1], its[e + 1][2],
                                          parentPos(e), childPos(e))
                       ELSE @[e]])],
         eI |-> stop - 1,
         raised |-> IF stop <= Len(its)
                       \/ ListLen(sk.jointConnectivity) < sk.jointCount
                    THEN "IndexError" ELSE "" ]

\* updateJointTransforms then updateEdgeTransforms, as both setters end
Derive(sk) == updateEdgeTransforms(updateJointTransforms(sk))

\* a filter that takes the first rows of the raw array, whatever it lists
Filter_firstRows(raw, jointFilter) ==
    Table([k \in DOMAIN jointFilter |-> raw[k]])

\* positions[self.jointFilter, :]: one row per filter entry, a fresh array
FilterOk(raw, jointFilter) ==
    \A k \in DOMAIN jointFilter : InRange(jointFilter[k], Rows(raw))
Filter(raw, jointFilter) ==
    Table([k \in DOMAIN jointFilter |-> raw[Wrap(jointFilter[k], Rows(raw))]])

\* how a call ended: applied (ran to the end), rejected (the early return
\* of the shape test) or raised (an exception left the method); ret is what
\* the caller gets back; rebound are the array attributes the call bound to
\* a new array object (self.x = ...), all other writes being item
\* assignments into the array the attribute already names
Ended(sk, outcome, ret, rebound) ==
    [sk |-> sk, outcome |-> outcome, ret |-> ret, rebound |-> rebound]

\* a blend of setJointPositions that adds the weighted input to the old pose
BlendPositions_accumulates(sk, positions) ==
    AAdd(sk.jointPositions, AScale(positions, Sub(One, sk.udateSmoothing)))

\* the blend of setJointPositions with the two weights exchanged
BlendPositions_swapped(sk, positions) ==
    AAdd(AScale(sk.jointPositions, Sub(One, sk.udateSmoothing)),
         AScale(positions, sk.udateSmoothing))

\* the blend of setJointPositions
BlendPositions(sk, positions) ==
    AAdd(AScale(sk.jointPositions, sk.udateSmoothing),
         AScale(positions, Sub(One, sk.udateSmoothing)))

\* how a setter ends after the two passes: d is what updateEdgeTransforms gave
EndDerived(d, rebound) ==
    Ended(d.sk, IF d.raised = "" THEN "applied" ELSE "raised",
          IF d.raised = "" THEN "None" ELSE d.raised, rebound)

\* an end of the setters that runs the joint pass only
DeriveAndEnd_jointsOnly(sk, rebound) ==
    Ended(updateJointTransforms(sk), "applied", "None", rebound)

\* the end of both setters: the two derivation passes
DeriveAndEnd(sk, rebound) == EndDerived(Derive(sk), rebound)

\* a setJointPositions whose shape test stores the filtered input as it is
setJointPositions_storesMismatched(sk, raw) ==
    IF ~FilterOk(raw, sk.jointFilter)
    THEN Ended(sk, "raised", "IndexError", {})
    ELSE LET positions == Filter(raw, sk.jointFilter)
         IN IF Shape(positions) # Shape(sk.jointPositions)
            THEN Ended([sk EXCEPT !.jointPositions = positions],
                       "rejected", "None", {"jointPositions"})
            ELSE DeriveAndEnd(
                   [sk EXCEPT !.jointPositions = BlendPositions(sk, positions)],
                   {"jointPositions"})

\* a setJointPositions whose shape test skips the blend but not the passes
setJointPositions_derivesOnReject(sk, raw) ==
    IF ~FilterOk(raw, sk.jointFilter)
    THEN Ended(sk, "raised", "IndexError", {})
    ELSE LET positions == Filter(raw, sk.jointFilter)
         IN IF Shape(positions) # Shape(sk.jointPositions)
            THEN Ended(Derive(sk).sk, "rejected", "None", {})
            ELSE DeriveAndEnd(
                   [sk EXCEPT !.jointPositions = BlendPositions(sk, positions)],
                   {"jointPositions"})

setJointPositions(sk, raw) ==
    IF ~FilterOk(raw, sk.jointFilter)
    THEN Ended(sk, "raised", "IndexError", {})
    ELSE LET positions == Filter(raw, sk.jointFilter)
         IN IF Shape(positions) # Shape(sk.jointPositions)
            THEN Ended(sk, "rejected", "None", {})
            ELSE DeriveAndEnd(
                   [sk EXCEPT !.jointPositions = BlendPositions(sk, positions)],
                   {"jointPositions"})

\* the prerotations of setJointRotations, in the order the code applies them
correctionOrder ==
    <<0, 11, 12, 13, 14, 25, 26, 27, 1, 2, 4, 5, 6, 7, 9, 10,
      15, 16, 17, 18, 19, 20, 21, 22, 23, 24>>
correctionOf(k) ==
    IF k \in 15..24 THEN armPrerotation ELSE realign

\* the assignments rotations[k,:] = qmult(.., rotations[k,:]), one per entry
\* of correctionOrder.  The first entry whose row index is past the array
\* raises IndexError, the first whose row is not a quaternion makes qmult
\* raise ValueError; each row is assigned at most once, so when none raises
\* the result is given row by row.
FirstFailing(rotations) ==
    LET bad == {i \in 1 .. Len(correctionOrder) :
                   \/ ~InRange(correctionOrder[i], Rows(rotations))
                   \/ Len(rotations[correctionOrder[i]]) # 4}
    IN IF bad = {} THEN 0 ELSE Minimum(bad)

applyCorrections(rotations) ==
    LET i == FirstFailing(rotations)
        corrected == {correctionOrder[j] : j \in 1 .. Len(correctionOrder)}
    IN IF i = 0
       THEN [rotations |-> Table([k \in DOMAIN rotations |->
                                    IF k \in corrected
                                    THEN qmult(correctionOf(k), rotations[k])
                                    ELSE rotations[k]]),
             raised |-> ""]
       ELSE [rotations |-> rotations,
             raised |-> IF ~InRange(correctionOrder[i], Rows(rotations))
                        THEN "IndexError" ELSE "ValueError"]

\* the two assignments of setJointRotations: slerp_pose with weight
\* 1 - udateSmoothing for every joint, then the division by np.linalg.norm
\* of the whole array
SlerpBlend(sk, rotations) ==
    slerp_pose(sk.jointRotations, rotations,
               [j \in Joints(sk) |-> Sub(One, sk.udateSmoothing)])
Renormalise(a) == ADiv(a, arrayNorm(a, Rows(a)))
BlendRotations(sk, rotations) == Renormalise(SlerpBlend(sk, rotations))

\* setJointRotations from the shape test on: c is what the prerotations gave
setCorrectedRotations(sk, c) ==
    IF c.raised # "" THEN Ended(sk, "raised", c.raised, {})
    ELSE IF Shape(c.rotations) # Shape(sk.jointRotations)
    THEN Ended(sk, "rejected", "None", {})
    ELSE DeriveAndEnd(
           [sk EXCEPT !.jointRotations = BlendRotations(sk, c.rotations)],
           {"jointRotations"})

setJointRotations(sk, raw) ==
    IF ~FilterOk(raw, sk.jointFilter)
    THEN Ended(sk, "raised", "IndexError", {})
    ELSE setCorrectedRotations(sk, applyCorrections(Filter(raw, sk.jointFilter)))

(***************************************************************************)
(* Rigs, initial poses and the arrays the callers pass                     *)
(***************************************************************************)
\* a python list as a function on 0..n-1
List(s) == [k \in 0 .. (Len(s) - 1) |-> s[k + 1]]

\* the 3-joint chain 0 -> 1 -> 2
Chain3 == [ jointFilter |-> List(<<0, 1, 2>>),
            jointConnectivity |-> List(<< <<1>>, <<2>>, <<>> >>) ]

\* the 28-joint rig the prerotation comments of setJointRotations name:
\* hips, two legs, spine, two arms, neck and head; capture row 27 is dropped
Ref28 == [ jointFilter |-> [k \in 0..27 |-> IF k = 27 THEN 28 ELSE k],
           jointConnectivity |-> List(<<
             <<1, 6, 11>>, <<2>>, <<3>>, <<4>>, <<5>>, <<>>,
             <<7>>, <<8>>, <<9>>, <<10>>, <<>>,
             <<12>>, <<13>>, <<14>>, <<15, 20, 25>>,
             <<16>>, <<17>>, <<18>>, <<19>>, <<>>,
             <<21>>, <<22>>, <<23>>, <<24>>, <<>>,
             <<26>>, <<27>>, <<>> >>) ]

\* a rig file whose connectivity is not a tree: joint 2 is listed as a child
\* of joint 0 and of joint 1. Skeleton.__init__ and the loader take any lists.
TwoParents3 == [ jointFilter |-> List(<<0, 1, 2>>),
                 jointConnectivity |-> List(<< <<1, 2>>, <<2>>, <<>> >>) ]

Rigs == {Chain3, Ref28, TwoParents3}

\* rows of the capture stream
RawCount == 29
RawRows == 0 .. (RawCount - 1)

N(i) == Int2Num(i)

\* values np.random.rand can return (all in [0, 1))
InitPositions ==
    { [j \in RawRows |-> IF j % 2 = 0 THEN <<Half, Zero, Zero>>
                         ELSE <<Zero, Half, Rat(1, 4)>>] }
InitRotations ==
    { [j \in RawRows |-> <<Half, Half, Half, Half>>],
      [j \in RawRows |-> <<Half, Zero, Zero, Zero>>] }

\* position arrays: the chain of the example, a second pose, a 2-column array
PosChain == [i \in RawRows |-> <<Zero, N(i), Zero>>]
PosDiag == [i \in RawRows |-> <<N(i), N(1), N(i % 3)>>]
PosTwoCols == [i \in RawRows |-> <<Zero, N(i)>>]
RawPositions == {PosChain, PosDiag, PosTwoCols}

\* rotation arrays: identity, alternating unit quaternions, all zero, and a
\* 3-column array
RotIdentity == [i \in RawRows |-> <<One, Zero, Zero, Zero>>]
RotAlternate == [i \in RawRows |-> IF i % 2 = 0 THEN <<Zero, One, Zero, Zero>>
                                   ELSE <<Zero, Zero, Zero, One>>]
RotZero == [i \in RawRows |-> <<Zero, Zero, Zero, Zero>>]
RotThreeCols == [i \in RawRows |-> <<One, Zero, Zero>>]
RawRotations == {RotIdentity, RotAlternate, RotZero, RotThreeCols}

SmoothingValues == {Zero, Half, One, Two}
RootPositions == {<<N(1), N(2), N(3)>>, <<Zero, Zero, N(-1)>>}

\* every number of the object is one the model represents (or NaN)
ExactVec(v) == \A i \in DOMAIN v : v[i].d > 0 \/ v[i] = NaN
ExactArr(a) == \A k \in DOMAIN a : ExactVec(a[k])
ExactMats(a) == \A k \in DOMAIN a : \A i \in 1..4 : ExactVec(a[k][i])
ExactSkel(sk) ==
    /\ ExactArr(sk.jointPositions) /\ ExactArr(sk.jointRotations)
    /\ ExactMats(sk.jointTransforms) /\ ExactMats(sk.edgeTransforms)
    /\ ExactVec(sk.edgeLengths)

(***************************************************************************)
(* Array objects.  An attribute assignment (self.jointPositions = ...)     *)
(* binds the attribute to a new array; an item assignment                  *)
(* (self.jointTransforms[jI] = ...) writes into the array the attribute    *)
(* names.  A getter returns the array itself, so whoever keeps the         *)
(* returned value sees the item assignments made later.                    *)
(***************************************************************************)
ArrayAttrs == <<"jointPositions", "jointRotations", "jointTransforms",
                "edgeTransforms", "edgeLengths">>
AttrSet == {ArrayAttrs[i] : i \in DOMAIN ArrayAttrs}

\* the arrays __init__ creates, numbered in the order it creates them
InitIdent == [a \in AttrSet |-> CHOOSE i \in DOMAIN ArrayAttrs : ArrayAttrs[i] = a]

\* the attributes in rebound name new arrays
Rebind(id, rebound) ==
    LET top == Maximum({id[a] : a \in AttrSet})
    IN [a \in AttrSet |->
          IF a \in rebound
          THEN top + (CHOOSE i \in DOMAIN ArrayAttrs : ArrayAttrs[i] = a)
          ELSE id[a]]

\* getJointPositions .. getEdgeLengths: the array the attribute names; the
\* model keeps which array it is and what it held when the getter returned
Getter(sk, id, attr) == [id |-> id[attr], returned |-> sk[attr]]
getJointTransforms(sk, id) == Getter(sk, id, "jointTransforms")
getEdgeTransforms(sk, id) == Getter(sk, id, "edgeTransforms")
getEdgeLengths(sk, id) == Getter(sk, id, "edgeLengths")

(***************************************************************************)
(* Visualization (visualization.py): the per-joint and per-edge arrays of  *)
(* visual parameters, a record of the eight array attributes.              *)
(***************************************************************************)
\* Visualization.__init__: np.zeros / np.ones of the counts the skeleton
\* gives; edgeRoundings is made with jointCount entries
Visualization(sk) ==
    [ jointPrimitives |-> Table([j \in 0 .. (sk.jointCount - 1) |-> 0]),
      jointSizes |-> Table([j \in 0 .. (sk.jointCount - 1) |->
                              <<Rat(1, 10), Rat(1, 10), Rat(1, 10)>>]),
      jointRoundings |-> Table([j \in 0 .. (sk.jointCount - 1) |-> Rat(1, 100)]),
      jointSmoothings |-> Table([j \in 0 .. (sk.jointCount - 1) |-> Rat(1, 100)]),
      edgePrimitives |-> Table([e \in 0 .. (sk.edgeCount - 1) |-> 0]),
      edgeSizes |-> Table([e \in 0 .. (sk.edgeCount - 1) |->
                             <<Rat(1, 100), Rat(1, 100), One>>]),
      edgeRoundings |-> Table([e \in 0 .. (sk.jointCount - 1) |-> Rat(1, 10)]),
      edgeSmoothings |-> Table([e \in 0 .. (sk.edgeCount - 1) |-> Rat(1, 100)]) ]

\* the body the eight per-index setters share:
\*     if index >= self.<tested>.shape[0]: return
\*     self.<written>[index] = value
\* a negative index counts from the end of the array, an index outside
\* the array raises IndexError
SetEntry(vis, tested, written, index, value) ==
    IF index >= Rows(vis[tested])
    THEN [vis |-> vis, raised |-> ""]
    ELSE IF ~InRange(index, Rows(vis[written]))
    THEN [vis |-> vis, raised |-> "IndexError"]
    ELSE [vis |-> [vis EXCEPT
                     ![written][Wrap(index, Rows(vis[written]))] = value],
          raised |-> ""]

setJointPrimitive(vis, index, primitive) ==
    SetEntry(vis, "jointPrimitives", "jointPrimitives", index, primitive)
setJointSize(vis, index, size) ==
    SetEntry(vis, "jointPrimitives", "jointSizes", index, size)
setJointRounding(vis, index, round) ==
    SetEntry(vis, "jointRoundings", "jointRoundings", index, round)
setJointSmoothing(vis, index, smooth) ==
    SetEntry(vis, "jointRoundings", "jointSmoothings", index, smooth)
setEdgePrimitive(vis, index, primitive) ==
    SetEntry(vis, "edgePrimitives", "edgePrimitives", index, primitive)
setEdgeSize(vis, index, size) ==
    SetEntry(vis, "edgeSizes", "edgeSizes", index, size)
setEdgeRounding(vis, index, round) ==
    SetEntry(vis, "edgeRoundings", "edgeRoundings", index, round)
setEdgeSmoothing(vis, index, smooth) ==
    SetEntry(vis, "edgeSmoothings", "edgeSmoothings", index, smooth)

\* the reads of the uniform loops of Visualization.render: <<array, index>>
\* for jI in range(jointCount) and eI in range(edgeCount)
renderReads(sk) ==
    ({"jointPrimitives", "jointSizes", "jointRoundings", "jointSmoothings"}
        \X (0 .. (sk.jointCount - 1)))
    \cup ({"edgePrimitives", "edgeSizes", "edgeRoundings", "edgeSmoothings"}
        \X (0 .. (sk.edgeCount - 1)))

\* the exception the loops of render end with ("" if none)
renderUniforms(vis, sk) ==
    IF \A rd \in renderReads(sk) : InRange(rd[2], Rows(vis[rd[1]]))
    THEN "" ELSE "IndexError"

(***************************************************************************)
(* State                                                                   *)
(***************************************************************************)
VARIABLES
    skeleton,   \* the Skeleton object
    ident,      \* which array object each array attribute names
    held,       \* the values raymarching.py got from the getters at start-up
    call,       \* the last call made on the skeleton and how it ended
    ncalls,     \* number of calls made so far
    threads,    \* the handler threads of the OSC server, in order of arrival
    render,     \* the render pass of the GUI thread
    server,     \* the OSC server: its socket, its serve loop, the stop call
    visualization   \* the per-joint and per-edge arrays of the Visualization

vars == <<skeleton, ident, held, call, ncalls, threads, render, server,
          visualization>>

\* bound on the number of calls in one behaviour
MaxCalls == 2

NoCall == [op |-> "none", outcome |-> "none", ret |-> "none",
           mismatch |-> FALSE, repeats |-> FALSE, arg |-> <<>>]

\* no render pass yet
NoRender == [pc |-> "idle", passes |-> 0, jointTransforms |-> <<>>,
             edgeTransforms |-> <<>>, edgeLengths |-> <<>>]

\* OscControl after start(): the socket is bound, the server thread is in
\* the select of serve_forever, stop() has not been called
NoServer == [socket |-> "open", loop |-> "select", request |-> <<>>,
             stop |-> "none", joined |-> 0, polls |-> 0]

\* raymarching.py: the skeleton is constructed, then the module keeps what
\* the three getters return
InitFor(rigs) ==
    /\ \E rig \in rigs, pos0 \in InitPositions, rot0 \in InitRotations :
          skeleton = Skeleton(rig.jointFilter, rig.jointConnectivity, pos0, rot0)
    /\ ident = InitIdent
    /\ held = [jointTransforms |-> getJointTransforms(skeleton, ident),
               edgeTransforms |-> getEdgeTransforms(skeleton, ident),
               edgeLengths |-> getEdgeLengths(skeleton, ident)]
    /\ call = NoCall
    /\ ncalls = 0
    /\ threads = <<>>
    /\ render = NoRender
    /\ server = NoServer
    /\ visualization = Visualization(skeleton)

Init == InitFor(Rigs)

\* what an array got from a getter holds now: the attribute's array as long
\* as an attribute names it (an array no attribute names is written by no
\* method, and the attributes that are rebound are never item-assigned)
Contents(h) ==
    IF \E a \in AttrSet : ident[a] = h.id
    THEN skeleton[CHOOSE a \in AttrSet : ident[a] = h.id]
    ELSE h.returned

\* a call of a method that cannot fail
Returned(op, arg) ==
    [op |-> op, outcome |-> "applied", ret |-> "None", mismatch |-> FALSE,
     repeats |-> FALSE,
     arg |-> arg]

\* the call made now is the call made last, and that one was applied
Repeats(op, raw) ==
    call.op = op /\ call.arg = raw /\ call.outcome = "applied"

\* the filtered array has not the shape of the stored pose array
Mismatch(raw, stored, jointFilter) ==
    FilterOk(raw, jointFilter) /\ Shape(Filter(raw, jointFilter)) # Shape(stored)

SetUpdateSmoothing ==
    /\ ncalls < MaxCalls
    /\ \E f \in SmoothingValues :
          /\ skeleton' = setUpdateSmoothing(skeleton, f)
          /\ call' = Returned("setUpdateSmoothing", f)
    /\ ncalls' = ncalls + 1
    /\ UNCHANGED <<visualization, server, ident, held, threads, render>>

SetPosition ==
    /\ ncalls < MaxCalls
    /\ \E p \in RootPositions :
          /\ skeleton' = setPosition(skeleton, p)
          /\ call' = Returned("setPosition", p)
    /\ ncalls' = ncalls + 1
    /\ UNCHANGED <<visualization, server, ident, held, threads, render>>

SetJointPositions ==
    /\ ncalls < MaxCalls
    /\ \E raw \in RawPositions :
          \E r \in {setJointPositions(skeleton, raw)} :
             /\ IF ExactSkel(r.sk) THEN TRUE ELSE FALSE
             /\ skeleton' = r.sk
             /\ ident' = Rebind(ident, r.rebound)
             /\ call' = [op |-> "setJointPositions", outcome |-> r.outcome,
                         ret |-> r.ret, arg |-> raw,
                         repeats |-> Repeats("setJointPositions", raw),
                         mismatch |-> Mismatch(raw, skeleton.jointPositions,
                                               skeleton.jointFilter)]
    /\ ncalls' = ncalls + 1
    /\ UNCHANGED <<visualization, server, held, threads, render>>

SetJointRotations ==
    /\ ncalls < MaxCalls
    /\ \E raw \in RawRotations :
          \E r \in {setJointRotations(skeleton, raw)} :
             /\ IF ExactSkel(r.sk) THEN TRUE ELSE FALSE
             /\ skeleton' = r.sk
             /\ ident' = Rebind(ident, r.rebound)
             /\ call' = [op |-> "setJointRotations", outcome |-> r.outcome,
                         ret |-> r.ret, arg |-> raw,
                         repeats |-> Repeats("setJointRotations", raw),
                         mismatch |-> Mismatch(raw, skeleton.jointRotations,
                                               skeleton.jointFilter)]
    /\ ncalls' = ncalls + 1
    /\ UNCHANGED <<visualization, server, held, threads, render>>

Next ==
    \/ SetUpdateSmoothing
    \/ SetPosition
    \/ SetJointPositions
    \/ SetJointRotations

Spec == Init /\ [][Next]_vars

Exact == ExactSkel(skeleton)

(***************************************************************************)
(* Threads.  The OSC server (ThreadingOSCUDPServer) runs the handler of    *)
(* every message on a thread of its own and the GUI thread runs render on  *)
(* a timer.  No lock is taken anywhere, so the interpreter may switch      *)
(* threads between any two statements.  The steps of a handler are: the    *)
(* statements up to the shape test (they write locals only; the two small  *)
(* setters are one step), the evaluation of the right-hand side of an      *)
(* assignment to a pose attribute, the assignment, one iteration of the    *)
(* joint loop, one iteration of the edge loop.  np.copy runs in one piece. *)
(***************************************************************************)
\* bounds on the messages received and on the render passes
MaxMessages == 2
MaxRenders == 1

\* the calls the handlers of osc_control.py make on the skeleton
Messages ==
    {[op |-> "setJointPositions", arg |-> a] : a \in {PosChain, PosTwoCols}}
       \cup {[op |-> "setJointRotations", arg |-> RotIdentity],
             [op |-> "setUpdateSmoothing", arg |-> Half],
             [op |-> "setPosition", arg |-> <<N(1), N(2), N(3)>>]}

\* what a handler has stored into the derived arrays so far
NoOut == [jointTransforms |-> <<>>, edgeTransforms |-> <<>>,
          edgeLengths |-> <<>>]

\* a handler thread: pc is the step it takes next, line the assignment
\* statement of skeleton.py it is in, tmp its local array (the filtered
\* input, then the value to assign), jI and eI its loop indices
NewThread(m) ==
    [op |-> m.op, arg |-> m.arg, pc |-> "call", line |-> 0, tmp |-> <<>>,
     jI |-> 0, eI |-> 0, out |-> NoOut, outcome |-> "running", ret |-> "none"]

Finish(th, outcome, ret) ==
    [th EXCEPT !.pc = "done", !.tmp = <<>>, !.outcome = outcome, !.ret = ret]

\* a handler thread starts when a message arrives; overlap says whether a
\* message may arrive while an earlier handler is still running
Receive(overlap) ==
    /\ Len(threads) < MaxMessages
    /\ overlap \/ \A t \in DOMAIN threads : threads[t].pc = "done"
    /\ \E m \in Messages : threads' = Append(threads, NewThread(m))
    /\ UNCHANGED <<visualization, server, skeleton, ident, held, call, ncalls, render>>

\* messages far enough apart for a handler to end before the next starts
ReceiveApart == Receive(FALSE)

\* the first step: setUpdateSmoothing and setPosition whole, the pose
\* setters up to the shape test
BeginStep(sk, th) ==
    CASE th.op = "setUpdateSmoothing" ->
            [sk |-> setUpdateSmoothing(sk, th.arg),
             th |-> Finish(th, "applied", "None")]
      [] th.op = "setPosition" ->
            [sk |-> setPosition(sk, th.arg),
             th |-> Finish(th, "applied", "None")]
      [] th.op = "setJointPositions" ->
            [sk |-> sk,
             th |-> IF ~FilterOk(th.arg, sk.jointFilter)
                    THEN Finish(th, "raised", "IndexError")
                    ELSE LET positions == Filter(th.arg, sk.jointFilter)
                         IN IF Shape(positions) # Shape(sk.jointPositions)
                            THEN Finish(th, "rejected", "None")
                            ELSE [th EXCEPT !.pc = "eval", !.line = 97,
                                            !.tmp = positions]]
      [] th.op = "setJointRotations" ->
            [sk |-> sk,
             th |-> IF ~FilterOk(th.arg, sk.jointFilter)
                    THEN Finish(th, "raised", "IndexError")
                    ELSE LET c == applyCorrections(
                                     Filter(th.arg, sk.jointFilter))
                         IN IF c.raised # "" THEN Finish(th, "raised", c.raised)
                            ELSE IF Shape(c.rotations) # Shape(sk.jointRotations)
                            THEN Finish(th, "rejected", "None")
                            ELSE [th EXCEPT !.pc = "eval", !.line = 175,
                                            !.tmp = c.rotations]]

Begin ==
    /\ \E t \in DOMAIN threads :
          /\ threads[t].pc = "call"
          /\ \E r \in {BeginStep(skeleton, threads[t])} :
                /\ skeleton' = r.sk
                /\ threads' = [threads EXCEPT ![t] = r.th]
    /\ UNCHANGED <<visualization, server, ident, held, call, ncalls, render>>

\* the right-hand side of the assignment in line 97, 175 or 176
EvalStep(sk, th) ==
    CASE th.line = 97 -> BlendPositions(sk, th.tmp)
      [] th.line = 175 -> SlerpBlend(sk, th.tmp)
      [] th.line = 176 -> Renormalise(sk.jointRotations)

Eval ==
    /\ \E t \in DOMAIN threads :
          /\ threads[t].pc = "eval"
          /\ \E v \in {EvalStep(skeleton, threads[t])} :
                /\ IF ExactArr(v) THEN TRUE ELSE FALSE
                /\ threads' = [threads EXCEPT ![t].pc = "store", ![t].tmp = v]
    /\ UNCHANGED <<visualization, server, skeleton, ident, held, call, ncalls, render>>

\* the attribute the assignment of a line binds
AssignedAttr(line) == IF line = 97 THEN "jointPositions" ELSE "jointRotations"

\* the assignment itself; after line 175 comes line 176, after the others
\* the joint loop
StoreStep(th) ==
    IF th.line = 175
    THEN [th EXCEPT !.pc = "eval", !.line = 176, !.tmp = <<>>]
    ELSE [th EXCEPT !.pc = "joints", !.jI = 0, !.tmp = <<>>]

Store ==
    /\ \E t \in DOMAIN threads :
          /\ threads[t].pc = "store"
          /\ skeleton' = [skeleton EXCEPT
                             ![AssignedAttr(threads[t].line)] = threads[t].tmp]
          /\ ident' = Rebind(ident, {AssignedAttr(threads[t].line)})
          /\ threads' = [threads EXCEPT ![t] = StoreStep(threads[t])]
    /\ UNCHANGED <<visualization, server, held, call, ncalls, render>>

\* the end of updateEdgeTransforms: the outer loop raises when it comes to
\* a joint that has no connectivity list
EndOfEdgePass(sk, th) ==
    IF ListLen(sk.jointConnectivity) < sk.jointCount
    THEN Finish(th, "raised", "IndexError")
    ELSE Finish(th, "applied", "None")

\* one iteration of the loop of updateJointTransforms
JointStep ==
    /\ \E t \in DOMAIN threads :
          /\ threads[t].pc = "joints"
          /\ \E v \in {JointTransform(skeleton, threads[t].jI)} :
             \E th \in {[threads[t] EXCEPT
                           !.jI = @ + 1,
                           !.out.jointTransforms = (threads[t].jI :> v) @@ @]} :
                /\ IF ExactMats(<<v>>) THEN TRUE ELSE FALSE
                /\ skeleton' = [skeleton EXCEPT
                                  !.jointTransforms[threads[t].jI] = v]
                /\ threads' = [threads EXCEPT ![t] =
                      IF th.jI < skeleton.jointCount THEN th
                      ELSE IF Len(EdgeIterations(skeleton)) = 0
                      THEN EndOfEdgePass(skeleton, th)
                      ELSE [th EXCEPT !.pc = "edges", !.eI = 0]]
    /\ UNCHANGED <<visualization, server, ident, held, call, ncalls, render>>

\* one iteration of the inner loop of updateEdgeTransforms: an iteration
\* that raises ends the handler, any other stores the two entries of edge eI
EdgeStep ==
    /\ \E t \in DOMAIN threads :
          /\ threads[t].pc = "edges"
          /\ \E its \in {EdgeIterations(skeleton)} :
             \E e \in {threads[t].eI + 1} :
             \E pjI \in {its[e][1]}, cjI \in {its[e][2]} :
             \E childJointPos \in
                   {skeleton.jointPositions[Wrap(cjI, skeleton.jointCount)]} :
                IF e = FirstRaising(skeleton, its)
                THEN /\ threads' = [threads EXCEPT ![t] =
                                      Finish(threads[t], "raised", "IndexError")]
                     /\ UNCHANGED skeleton
                ELSE \E w \in {[edgeLength |->
                                  EdgeLength(skeleton.jointPositions[pjI],
                                             childJointPos),
                                edgeTransform |->
                                  EdgeTransform(skeleton, pjI, cjI,
                                                skeleton.jointPositions[pjI],
                                                childJointPos)]} :
                     \E th \in {[threads[t] EXCEPT
                                   !.eI = e,
                                   !.out.edgeLengths =
                                       ((e - 1) :> w.edgeLength) @@ @,
                                   !.out.edgeTransforms =
                                       ((e - 1) :> w.edgeTransform) @@ @]} :
                          /\ IF ExactMats(<<w.edgeTransform>>)
                                /\ ExactVec(<<w.edgeLength>>)
                             THEN TRUE ELSE FALSE
                          /\ skeleton' = [skeleton EXCEPT
                                !.edgeLengths[e - 1] = w.edgeLength,
                                !.edgeTransforms[e - 1] = w.edgeTransform]
                          /\ threads' = [threads EXCEPT ![t] =
                                IF e < Len(its) THEN th
                                ELSE EndOfEdgePass(skeleton, th)]
    /\ UNCHANGED <<visualization, server, ident, held, call, ncalls, render>>

\* a render pass that takes no copy and clears the live array it was handed
RenderCopyJointTransforms_clearsLive ==
    /\ render.pc = "idle" /\ render.passes < MaxRenders
    /\ render' = [render EXCEPT !.pc = "copyEdgeTransforms",
                                !.jointTransforms = skeleton.jointTransforms]
    /\ skeleton' = [skeleton EXCEPT !.jointTransforms =
                       [jI \in Joints(skeleton) |-> zeros44]]
    /\ UNCHANGED <<visualization, server, ident, held, call, ncalls, threads>>

\* Visualization.render: the three np.copy statements, then the loops that
\* hand the copies to the shader; pc is the statement the pass runs next
RenderCopyJointTransforms ==
    /\ render.pc = "idle" /\ render.passes < MaxRenders
    /\ render' = [render EXCEPT !.pc = "copyEdgeTransforms",
                                !.jointTransforms = skeleton.jointTransforms]
    /\ UNCHANGED <<visualization, server, skeleton, ident, held, call, ncalls, threads>>

\* a render pass that waits until no handler is running before it copies
RenderCopyEdgeTransforms_waits ==
    /\ render.pc = "copyEdgeTransforms"
    /\ \A t \in DOMAIN threads : threads[t].pc = "done"
    /\ render' = [render EXCEPT !.pc = "copyEdgeLengths",
                                !.edgeTransforms = skeleton.edgeTransforms]
    /\ UNCHANGED <<visualization, server, skeleton, ident, held, call, ncalls, threads>>

RenderCopyEdgeTransforms ==
    /\ render.pc = "copyEdgeTransforms"
    /\ render' = [render EXCEPT !.pc = "copyEdgeLengths",
                                !.edgeTransforms = skeleton.edgeTransforms]
    /\ UNCHANGED <<visualization, server, skeleton, ident, held, call, ncalls, threads>>

RenderCopyEdgeLengths ==
    /\ render.pc = "copyEdgeLengths"
    /\ render' = [render EXCEPT !.pc = "draw",
                                !.edgeLengths = skeleton.edgeLengths]
    /\ UNCHANGED <<visualization, server, skeleton, ident, held, call, ncalls, threads>>

RenderDraw ==
    /\ render.pc = "draw"
    /\ render' = [NoRender EXCEPT !.passes = render.passes + 1]
    /\ UNCHANGED <<visualization, server, skeleton, ident, held, call, ncalls, threads>>

ConcNext ==
    \/ ReceiveApart
    \/ Begin
    \/ Eval
    \/ Store
    \/ JointStep
    \/ EdgeStep
    \/ RenderCopyJointTransforms
    \/ RenderCopyEdgeTransforms
    \/ RenderCopyEdgeLengths
    \/ RenderDraw

\* the threads are followed on the 3-joint chain
ConcInit == InitFor({Chain3})

ConcSpec == ConcInit /\ [][ConcNext]_vars

\* a step of a handler thread, a step of the render pass
HandlerStep == Begin \/ Eval \/ Store \/ JointStep \/ EdgeStep
RenderStep ==
    \/ RenderCopyJointTransforms
    \/ RenderCopyEdgeTransforms
    \/ RenderCopyEdgeLengths
    \/ RenderDraw

\* the interpreter gives every thread that can run its turn in the end
ConcFairSpec == ConcSpec /\ WF_vars(HandlerStep) /\ WF_vars(RenderStep)

\* bound on the times the serve loop polls its closed socket
MaxPolls == 2

\* serve_forever, selecting on the open socket: a datagram is there and
\* get_request reads it
ServeGetRequest ==
    /\ server.loop = "select" /\ server.socket = "open"
    /\ Len(threads) < MaxMessages
    /\ \E m \in Messages :
          server' = [server EXCEPT !.loop = "request", !.request = m]
    /\ UNCHANGED <<visualization, skeleton, ident, held, call, ncalls, threads, render>>

\* process_request of the threading server: the handler of the datagram
\* read gets a thread of its own, and the loop goes back to the select
ServeProcessRequest ==
    /\ server.loop = "request"
    /\ threads' = Append(threads, NewThread(server.request))
    /\ server' = [server EXCEPT !.loop = "select", !.request = <<>>]
    /\ UNCHANGED <<visualization, skeleton, ident, held, call, ncalls, render>>

\* serve_forever after the socket was closed: nothing sets the shutdown
\* request the loop tests, so the loop polls again
ServePollClosed ==
    /\ server.loop = "select" /\ server.socket = "closed"
    /\ server.polls < MaxPolls
    /\ server' = [server EXCEPT !.polls = @ + 1]
    /\ UNCHANGED <<visualization, skeleton, ident, held, call, ncalls, threads, render>>

\* OscControl.stop, first half of server_close: the socket is closed
StopClose ==
    /\ server.stop = "none"
    /\ server' = [server EXCEPT !.socket = "closed", !.stop = "closing"]
    /\ UNCHANGED <<visualization, skeleton, ident, held, call, ncalls, threads, render>>

\* second half of server_close: the handler threads started so far are
\* taken off the server's list to be joined
StopTakeThreads ==
    /\ server.stop = "closing"
    /\ server' = [server EXCEPT !.stop = "joining", !.joined = Len(threads)]
    /\ UNCHANGED <<visualization, skeleton, ident, held, call, ncalls, threads, render>>

\* the joins end when the threads taken have ended, and stop() returns
StopReturn ==
    /\ server.stop = "joining"
    /\ \A t \in 1 .. server.joined : threads[t].pc = "done"
    /\ server' = [server EXCEPT !.stop = "returned"]
    /\ UNCHANGED <<visualization, skeleton, ident, held, call, ncalls, threads, render>>

ShutNext ==
    \/ ServeGetRequest
    \/ ServeProcessRequest
    \/ ServePollClosed
    \/ StopClose
    \/ StopTakeThreads
    \/ StopReturn
    \/ Begin
    \/ Eval
    \/ Store
    \/ JointStep
    \/ EdgeStep

\* every thread that can take a step takes one in the end
ShutSpec == ConcInit /\ [][ShutNext]_vars /\ WF_vars(ShutNext)

\* bound on the messages of a burst, and the messages of the burst: a
\* smoothing factor strictly between 0 and 1 and a pose
MaxBurst == 3
BurstMessages ==
    {[op |-> "setUpdateSmoothing", arg |-> Half],
     [op |-> "setJointPositions", arg |-> PosChain]}

\* a message of a burst arrives: its handler thread starts whether or not
\* the handlers of earlier messages have ended
ReceiveBurst ==
    /\ Len(threads) < MaxBurst
    /\ \E m \in BurstMessages : threads' = Append(threads, NewThread(m))
    /\ UNCHANGED <<visualization, server, skeleton, ident, held, call, ncalls, render>>

BurstNext ==
    \/ ReceiveBurst
    \/ Begin
    \/ Eval
    \/ Store
    \/ JointStep
    \/ EdgeStep

\* handlers of messages that arrive close together, on the 3-joint chain
BurstSpec == ConcInit /\ [][BurstNext]_vars

(***************************************************************************)
(* The mocap handlers of OscControl (osc_control.py).  A message is an     *)
(* address and a tuple of arguments; the dispatcher calls the handler the  *)
(* address is mapped to.  Here the messages are far enough apart for a     *)
(* handler to end before the next starts.                                  *)
(***************************************************************************)
\* the mocap addresses OscControl.__init__ maps, each with its handler
dispatcher ==
    ("/mocap/updatesmoothing" :> "setMocapUpdateSmoothing")
    @@ ("/mocap/skelposworld" :> "setMocapSkeletonPosition")
    @@ ("/mocap/joint/pos_world" :> "setMocapJointPositions")
    @@ ("/mocap/0/joint/pos_world" :> "setMocapJointPositions")
    @@ ("/mocap/joint/rot_world" :> "setMocapJointRotations")
    @@ ("/mocap/0/joint/rot_world" :> "setMocapJointRotations")

AddressesOf(handler) == {a \in DOMAIN dispatcher : dispatcher[a] = handler}

\* np.reshape(np.array(args), (-1, cols)): row k holds arguments
\* k*cols .. k*cols + cols - 1; it raises unless cols divides the count
reshape(args, cols) ==
    Table([k \in 0 .. ((Len(args) \div cols) - 1) |->
             [c \in 1 .. cols |-> args[k * cols + c]]])

\* a[:, c] = src[:, d], columns counted from 0 as in the code
AssignColumn(a, c, src, d) ==
    Table([k \in DOMAIN a |-> [a[k] EXCEPT ![c + 1] = src[k][d + 1]]])

\* a remapping of positions that reads the array it is writing
remapPositions_noCopy(positions) ==
    LET p0 == AssignColumn(positions, 0, positions, 1)
        p1 == AssignColumn(p0, 1, p0, 0)
    IN AssignColumn(p1, 2, p1, 2)

\* "right handed to left handed": tmp = np.copy(positions), then the three
\* column assignments
remapPositions(positions) ==
    LET tmp == positions
        p0 == AssignColumn(positions, 0, tmp, 1)
        p1 == AssignColumn(p0, 1, tmp, 0)
    IN AssignColumn(p1, 2, tmp, 2)

\* tmp = np.copy(rotations), then the four column assignments
remapRotations(rotations) ==
    LET tmp == rotations
        r0 == AssignColumn(rotations, 0, tmp, 0)
        r1 == AssignColumn(r0, 1, tmp, 2)
        r2 == AssignColumn(r1, 2, tmp, 1)
    IN AssignColumn(r2, 3, tmp, 3)

\* a handler: handed is the array it passes to the skeleton (none if it
\* raised before the call), r how the handler ended
setMocapJointPositions(sk, args) ==
    IF Len(args) % 3 # 0
    THEN [handed |-> <<>>, r |-> Ended(sk, "raised", "ValueError", {})]
    ELSE LET positions == remapPositions(reshape(args, 3))
         IN [handed |-> positions, r |-> setJointPositions(sk, positions)]

setMocapJointRotations(sk, args) ==
    IF Len(args) % 4 # 0
    THEN [handed |-> <<>>, r |-> Ended(sk, "raised", "ValueError", {})]
    ELSE LET rotations == remapRotations(reshape(args, 4))
         IN [handed |-> rotations, r |-> setJointRotations(sk, rotations)]

setMocapUpdateSmoothing(sk, args) ==
    [handed |-> args[1],
     r |-> Ended(setUpdateSmoothing(sk, args[1]), "applied", "None", {})]

setMocapSkeletonPosition(sk, args) ==
    [handed |-> args,
     r |-> Ended(setPosition(sk, args), "applied", "None", {})]

\* the arguments of a message that carries the rows of an array
Flat(raw, cols) ==
    [i \in 1 .. (RawCount * cols) |-> raw[(i - 1) \div cols][((i - 1) % cols) + 1]]

\* argument tuples of the pose messages: whole frames of the capture
\* stream, and a tuple that is not a whole number of rows
PositionArgs ==
    {Flat(PosChain, 3), Flat(PosDiag, 3), <<N(1), N(2), N(3), N(4)>>}
RotationArgs ==
    {Flat(RotIdentity, 4), Flat(RotAlternate, 4), <<One, Zero, Zero>>}

\* a message is handled: the handler of its address runs to its end
Handle(handler, args, h) ==
    /\ IF ExactSkel(h.r.sk) THEN TRUE ELSE FALSE
    /\ skeleton' = h.r.sk
    /\ ident' = Rebind(ident, h.r.rebound)
    /\ \E address \in AddressesOf(handler) :
          call' = [op |-> handler, address |-> address, args |-> args,
                   arg |-> h.handed, outcome |-> h.r.outcome, ret |-> h.r.ret,
                   mismatch |-> FALSE, repeats |-> FALSE]
    /\ ncalls' = ncalls + 1
    /\ UNCHANGED <<visualization, server, held, threads, render>>

MocapUpdateSmoothing ==
    /\ ncalls < MaxCalls
    /\ \E f \in SmoothingValues :
          \E h \in {setMocapUpdateSmoothing(skeleton, <<f>>)} :
             Handle("setMocapUpdateSmoothing", <<f>>, h)

MocapSkeletonPosition ==
    /\ ncalls < MaxCalls
    /\ \E p \in RootPositions :
          \E h \in {setMocapSkeletonPosition(skeleton, p)} :
             Handle("setMocapSkeletonPosition", p, h)

MocapJointPositions ==
    /\ ncalls < MaxCalls
    /\ \E args \in PositionArgs :
          \E h \in {setMocapJointPositions(skeleton, args)} :
             Handle("setMocapJointPositions", args, h)

MocapJointRotations ==
    /\ ncalls < MaxCalls
    /\ \E args \in RotationArgs :
          \E h \in {setMocapJointRotations(skeleton, args)} :
             Handle("setMocapJointRotations", args, h)

OscNext ==
    \/ MocapUpdateSmoothing
    \/ MocapSkeletonPosition
    \/ MocapJointPositions
    \/ MocapJointRotations

\* the mocap messages, on the 3-joint chain and on the 28-joint rig
OscSpec == InitFor({Chain3, Ref28}) /\ [][OscNext]_vars

(***************************************************************************)
(* The per-index setters of the Visualization, called by the /vis/...      *)
(* handlers with the index the message carries, and the uniform loops of   *)
(* render.                                                                 *)
(***************************************************************************)
\* a rig file with more edges than joints: joint 2 has two parents and
\* lists joint 0 as its child.  The loader and Skeleton.__init__ take it.
Cyclic3 == [ jointFilter |-> List(<<0, 1, 2>>),
             jointConnectivity |-> List(<< <<1, 2>>, <<2>>, <<0>> >>) ]

\* indices a message can carry (any integer), around 0 and the counts
VisIndices == {-5, -1, 0, 1, 2, 3, 4}
\* values: a primitive number, a size, a rounding or smoothing
VisPrimitives == {1, 2}
VisSizes == {<<Half, Half, Half>>}
VisScalars == {Half}

\* a setter has been called and has ended as r says
VisCall(op, index, value, r) ==
    /\ visualization' = r.vis
    /\ call' = [op |-> op, arg |-> <<index, value>>,
                outcome |-> IF r.raised = "" THEN "applied" ELSE "raised",
                ret |-> IF r.raised = "" THEN "None" ELSE r.raised,
                mismatch |-> FALSE, repeats |-> FALSE]
    /\ ncalls' = ncalls + 1
    /\ UNCHANGED <<skeleton, ident, held, threads, render, server>>

SetJointPrimitive ==
    /\ ncalls < MaxCalls
    /\ \E index \in VisIndices, primitive \in VisPrimitives :
          VisCall("setJointPrimitive", index, primitive,
                  setJointPrimitive(visualization, index, primitive))

SetJointSize ==
    /\ ncalls < MaxCalls
    /\ \E index \in VisIndices, size \in VisSizes :
          VisCall("setJointSize", index, size,
                  setJointSize(visualization, index, size))

SetJointRounding ==
    /\ ncalls < MaxCalls
    /\ \E index \in VisIndices, round \in VisScalars :
          VisCall("setJointRounding", index, round,
                  setJointRounding(visualization, index, round))

SetJointSmoothing ==
    /\ ncalls < MaxCalls
    /\ \E index \in VisIndices, smooth \in VisScalars :
          VisCall("setJointSmoothing", index, smooth,
                  setJointSmoothing(visualization, index, smooth))

SetEdgePrimitive ==
    /\ ncalls < MaxCalls
    /\ \E index \in VisIndices, primitive \in VisPrimitives :
          VisCall("setEdgePrimitive", index, primitive,
                  setEdgePrimitive(visualization, index, primitive))

SetEdgeSize ==
    /\ ncalls < MaxCalls
    /\ \E index \in VisIndices, size \in VisSizes :
          VisCall("setEdgeSize", index, size,
                  setEdgeSize(visualization, index, size))

SetEdgeRounding ==
    /\ ncalls < MaxCalls
    /\ \E index \in VisIndices, round \in VisScalars :
          VisCall("setEdgeRounding", index, round,
                  setEdgeRounding(visualization, index, round))

SetEdgeSmoothing ==
    /\ ncalls < MaxCalls
    /\ \E index \in VisIndices, smooth \in VisScalars :
          VisCall("setEdgeSmoothing", index, smooth,
                  setEdgeSmoothing(visualization, index, smooth))

\* the uniform loops of one render pass
RenderUniforms ==
    /\ ncalls < MaxCalls
    /\ \E raised \in {renderUniforms(visualization, skeleton)} :
          call' = [op |-> "render", arg |-> <<>>,
                   outcome |-> IF raised = "" THEN "applied" ELSE "raised",
                   ret |-> IF raised = "" THEN "None" ELSE raised,
                   mismatch |-> FALSE, repeats |-> FALSE]
    /\ ncalls' = ncalls + 1
    /\ UNCHANGED <<skeleton, ident, held, threads, render, server,
                   visualization>>

VisNext ==
    \/ SetJointPrimitive
    \/ SetJointSize
    \/ SetJointRounding
    \/ SetJointSmoothing
    \/ SetEdgePrimitive
    \/ SetEdgeSize
    \/ SetEdgeRounding
    \/ SetEdgeSmoothing
    \/ RenderUniforms

\* the visualization of a tree rig and of two rigs that are not trees
VisSpec == InitFor({Chain3, TwoParents3, Cyclic3}) /\ [][VisNext]_vars

(***************************************************************************)
(* Properties of the sequential specification                              *)
(***************************************************************************)
\* a step that is a call of one of the two pose setters
Updates == {"setJointPositions", "setJointRotations"}
IsUpdate == ncalls' = ncalls + 1 /\ call'.op \in Updates
Accepted == IsUpdate /\ call'.outcome = "applied"

\* the five arrays of the pose and of its derivation are those of another
\* state of the object
SameArrays(a, b) == \A attr \in AttrSet : a[attr] = b[attr]

\* the derived arrays of sk hold, entry by entry, what the two passes
\* compute from the pose and root transform of sk
IsDerived(sk) ==
    LET its == EdgeIterations(sk)
    IN /\ \A jI \in Joints(sk) : sk.jointTransforms[jI] = JointTransform(sk, jI)
       /\ \A e \in 1 .. Len(its) :
             LET parentJointPos == sk.jointPositions[its[e][1]]
                 childJointPos ==
                     sk.jointPositions[Wrap(its[e][2], sk.jointCount)]
             IN /\ sk.edgeLengths[e - 1]
                      = EdgeLength(parentJointPos, childJointPos)
                /\ sk.edgeTransforms[e - 1]
                      = EdgeTransform(sk, its[e][1], its[e][2],
                                      parentJointPos, childJointPos)

\* C3: what getJointTransforms, getEdgeTransforms and getEdgeLengths have
\* returned is not changed by any later call: the arrays raymarching.py
\* keeps still hold what they held when the getters returned.
C3_ReturnedArraysKeepTheirContents ==
    \A a \in DOMAIN held : Contents(held[a]) = held[a].returned

\* C4: a call of setJointPositions or setJointRotations whose filtered
\* input has not the shape of the stored pose array changes none of
\* jointPositions, jointRotations, jointTransforms, edgeTransforms and
\* edgeLengths.
C4_MismatchChangesNothing ==
    [][(IsUpdate /\ call'.mismatch) => SameArrays(skeleton', skeleton)]_vars

\* a position update with a 2-column array has been rejected on an object
\* whose derived arrays are not yet those of its pose
C4_Witness ==
    /\ call.op = "setJointPositions" /\ call.mismatch
    /\ call.outcome = "rejected"
    /\ ~IsDerived(skeleton)

\* C5: the caller can tell a rejected update from an accepted one: in no
\* state does a call of setJointPositions that is rejected give the caller
\* what a call that is applied gives.
C5_RejectionIsDistinguishable ==
    \A raw1, raw2 \in RawPositions :
       LET r1 == setJointPositions(skeleton, raw1)
           r2 == setJointPositions(skeleton, raw2)
       IN (r1.outcome = "rejected" /\ r2.outcome = "applied")
             => r1.ret # r2.ret

\* C6: between calls the derived arrays are what the two passes compute
\* from the current pose and root transform (after construction, after
\* setPosition, after every update).
C6_DerivedArraysAreCurrent == IsDerived(skeleton)

\* C7: an accepted update first blends the input into the pose and then
\* runs both passes on the blended pose: when it returns, the pose is the
\* blend and every joint and edge entry is derived from it.
C7_AcceptedUpdateBlendsThenDerives ==
    [][Accepted =>
          /\ call'.op = "setJointPositions" =>
                skeleton'.jointPositions
                   = BlendPositions(skeleton,
                                    Filter(call'.arg, skeleton.jointFilter))
          /\ call'.op = "setJointRotations" =>
                skeleton'.jointRotations
                   = BlendRotations(skeleton,
                        applyCorrections(
                           Filter(call'.arg, skeleton.jointFilter)).rotations)
          /\ IsDerived(skeleton')]_vars

\* a rotation update has been applied to the 28-joint rig after the root
\* was moved
C7_Witness ==
    /\ call.op = "setJointRotations" /\ call.outcome = "applied"
    /\ skeleton.skelTransform # eye4
    /\ skeleton.edgeCount = 27

\* C8: with udateSmoothing = 1 an update of positions or rotations leaves
\* the pose and the derived arrays as they were, from any state.
C8_FullSmoothingChangesNothing ==
    [][(IsUpdate /\ skeleton.udateSmoothing = One)
          => SameArrays(skeleton', skeleton)]_vars

\* C9: an accepted setJointPositions stores, for every joint and component,
\* old * s + incoming * (1 - s), s the udateSmoothing; for s = 0 the stored
\* array is the filtered input.
C9_PositionBlend ==
    [][(Accepted /\ call'.op = "setJointPositions") =>
          LET s == skeleton.udateSmoothing
              old == skeleton.jointPositions
              incoming == Filter(call'.arg, skeleton.jointFilter)
          IN /\ \A j \in Joints(skeleton) : \A c \in 1 .. 3 :
                   skeleton'.jointPositions[j][c]
                      = Add(Mul(old[j][c], s), Mul(incoming[j][c], Sub(One, s)))
             /\ s = Zero => skeleton'.jointPositions = incoming]_vars

\* a position update has been applied with udateSmoothing = 1/2: joint 1
\* lies halfway between where it was at construction, (0, 1/2, 1/4), and
\* row 1 of the input, (0, 1, 0)
C9_Witness ==
    /\ call.op = "setJointPositions" /\ call.outcome = "applied"
    /\ skeleton.udateSmoothing = Half
    /\ call.arg = PosChain
    /\ skeleton.jointPositions[1] = <<Zero, Rat(3, 4), Rat(1, 8)>>

\* every row of a rotation array is a unit quaternion
UnitRows(a) == \A k \in DOMAIN a : Len(a[k]) = 4 /\ Dot(a[k], a[k]) = One

\* C10: with udateSmoothing = 0 an accepted setJointRotations whose input
\* rows are unit quaternions stores, joint by joint, the corrected input
\* (the filtered input with the prerotations applied), not a rescaled one.
C10_RotationStoredAsCorrected ==
    [][(Accepted /\ call'.op = "setJointRotations"
          /\ skeleton.udateSmoothing = Zero /\ UnitRows(call'.arg))
          => skeleton'.jointRotations
                = applyCorrections(
                     Filter(call'.arg, skeleton.jointFilter)).rotations]_vars

\* C11: after every accepted setJointRotations every stored quaternion has
\* unit norm by itself (the normalisation is per joint).
C11_StoredRotationsAreUnit ==
    (call.op = "setJointRotations" /\ call.outcome = "applied")
       => UnitRows(skeleton.jointRotations)

\* the three derived arrays of two states of the object are the same
SameDerived(a, b) ==
    /\ a.jointTransforms = b.jointTransforms
    /\ a.edgeTransforms = b.edgeTransforms
    /\ a.edgeLengths = b.edgeLengths

\* C12: with udateSmoothing = 0, an accepted update applied a second time
\* in succession (same setter, same input) leaves jointTransforms,
\* edgeTransforms and edgeLengths as the first application left them.
C12_RepeatedUpdateIsIdempotent ==
    [][(Accepted /\ call'.repeats /\ skeleton.udateSmoothing = Zero)
          => SameDerived(skeleton', skeleton)]_vars

\* the same unit rotations have been applied twice in succession to the
\* 28-joint rig with udateSmoothing = 0
C12_Witness ==
    /\ call.op = "setJointRotations" /\ call.outcome = "applied"
    /\ call.repeats /\ call.arg = RotAlternate
    /\ skeleton.udateSmoothing = Zero

\* C13: the stored smoothing factor lies in [0, 1] in every state:
\* setUpdateSmoothing stores its argument clamped to that interval.
C13_SmoothingStaysInUnitInterval ==
    /\ ~Lt(skeleton.udateSmoothing, Zero)
    /\ ~Lt(One, skeleton.udateSmoothing)

\* C14: a call of a pose setter ends in one of two ways, on every rig: it
\* is applied or it is rejected; none ends by raising an error.
C14_UpdateIsAppliedOrRejected ==
    call.op \in Updates => call.outcome \in {"applied", "rejected"}

\* the 4 x 4 matrix of the translation by p: identity rotation, unit scale
Translation(p) ==
    << <<One, Zero, Zero, p[1]>>,
       <<Zero, One, Zero, p[2]>>,
       <<Zero, Zero, One, p[3]>>,
       <<Zero, Zero, Zero, One>> >>

UpdateFrame ==
    /\ call'.op = "setJointPositions"
          => skeleton'.jointRotations = skeleton.jointRotations
    /\ call'.op = "setJointRotations"
          => skeleton'.jointPositions = skeleton.jointPositions
    /\ skeleton'.udateSmoothing = skeleton.udateSmoothing
    /\ skeleton'.skelTransform = skeleton.skelTransform
    /\ skeleton'.skelInvTransform = skeleton.skelInvTransform

\* C16: position and rotation updates are independent: each leaves the
\* other pose array, the smoothing factor and the root transform unchanged,
\* and an update of either kind whose input has the shape of the pose array
\* is accepted whatever calls came before it.
C16_UpdatesAreIndependent ==
    [][IsUpdate =>
          /\ UpdateFrame
          /\ ~call'.mismatch => call'.outcome = "applied"]_vars

\* the frame part of C16 alone
UpdateFrameHolds == [][IsUpdate => UpdateFrame]_vars

\* C17: edgeCount is the sum of the lengths of the child lists of
\* jointConnectivity, and every rig the constructor accepted has
\* edgeCount = jointCount - 1.
C17_EdgeCountIsJointCountMinusOne ==
    /\ skeleton.edgeCount
          = SumChildren(skeleton.jointConnectivity,
                        ListLen(skeleton.jointConnectivity) - 1)
    /\ skeleton.edgeCount = skeleton.jointCount - 1

\* the (parent, slot) pairs of a connectivity list that name joint j as child
ParentSlots(conn, j) ==
    {ps \in UNION {{<<p, k>> : k \in 1 .. Len(conn[p])} : p \in DOMAIN conn} :
        conn[ps[1]][ps[2]] = j}

\* the joints reached from the joints of s by following child lists n times
RECURSIVE Descendants(_, _, _)
Descendants(conn, s, n) ==
    IF n = 0 THEN s
    ELSE LET next == s \cup UNION {{conn[p][k] : k \in 1 .. Len(conn[p])} :
                                      p \in s \cap DOMAIN conn}
         IN IF next = s THEN s ELSE Descendants(conn, next, n - 1)

\* what a loader that validated the rig file would let through: one child
\* list per joint, children inside the pose array, no parent for joint 0 and
\* exactly one for every other joint, every joint below joint 0, and a filter
\* of distinct capture rows
ValidRig(sk) ==
    LET conn == sk.jointConnectivity
        filt == sk.jointFilter
    IN /\ ListLen(conn) = sk.jointCount
       /\ \A p \in DOMAIN conn : \A k \in 1 .. Len(conn[p]) :
             InRange(conn[p][k], sk.jointCount)
       /\ ParentSlots(conn, 0) = {}
       /\ \A j \in 1 .. (sk.jointCount - 1) :
             Cardinality(ParentSlots(conn, j)) = 1
       /\ Descendants(conn, {0}, sk.jointCount) = Joints(sk)
       /\ \A a \in DOMAIN filt : filt[a] >= 0
       /\ \A a, b \in DOMAIN filt : filt[a] = filt[b] => a = b

\* C19: a malformed rig (connectivity that is not a tree rooted at joint 0,
\* or a filter with duplicate or out-of-range values) fails at load, so every
\* skeleton that applies an update was built from a valid rig.
C19_OnlyValidRigsAcceptUpdates ==
    (call.op \in Updates /\ call.outcome = "applied") => ValidRig(skeleton)

\* the (parent, slot) pairs of a connectivity list: slot k of parent p is
\* the k-th entry of p's child list
EdgeSlots(conn) ==
    UNION {{<<p, k>> : k \in 1 .. Len(conn[p])} : p \in DOMAIN conn}

\* the index of the edge in slot k of parent p: the number of slots that
\* come before it, parents ascending and then slots in list order
EdgeIndex(conn, p, k) ==
    Cardinality({s \in EdgeSlots(conn) :
                    s[1] < p \/ (s[1] = p /\ s[2] < k)})

\* C18: edge indices are stable: after every applied update, whichever
\* calls came before, entry e of edgeLengths and of edgeTransforms describes
\* the edge that is e-th when parents are taken in ascending joint index and
\* each parent's children in list order.
C18_EdgeOrderIsStable ==
    (call.op \in Updates /\ call.outcome = "applied") =>
       \A s \in EdgeSlots(skeleton.jointConnectivity) :
          LET pjI == s[1]
              cjI == skeleton.jointConnectivity[pjI][s[2]]
              e == EdgeIndex(skeleton.jointConnectivity, pjI, s[2])
              parentJointPos == skeleton.jointPositions[pjI]
              childJointPos == skeleton.jointPositions[cjI]
          IN /\ skeleton.edgeLengths[e]
                   = EdgeLength(parentJointPos, childJointPos)
             /\ skeleton.edgeTransforms[e]
                   = EdgeTransform(skeleton, pjI, cjI,
                                   parentJointPos, childJointPos)

\* the 28-joint rig after an unsmoothed position update: edges 0 and 2 are
\* hips -> joint 1 and hips -> joint 11, of different lengths
C18_Witness ==
    /\ call.op = "setJointPositions"
    /\ call.outcome = "applied"
    /\ call.arg = PosDiag
    /\ skeleton.jointCount = 28
    /\ skeleton.udateSmoothing = Zero
    /\ skeleton.edgeLengths[0] = Sqrt(N(2))
    /\ skeleton.edgeLengths[2] = Sqrt(N(125))

\* the Euclidean distance of two points, coordinate by coordinate
Distance(a, b) ==
    Sqrt(Add(Add(Mul(Sub(b[1], a[1]), Sub(b[1], a[1])),
                 Mul(Sub(b[2], a[2]), Sub(b[2], a[2]))),
             Mul(Sub(b[3], a[3]), Sub(b[3], a[3]))))

\* the point halfway between two points
Midpoint(a, b) ==
    <<Div(Add(a[1], b[1]), Two), Div(Add(a[2], b[2]), Two),
      Div(Add(a[3], b[3]), Two)>>

\* C20: after an applied setJointPositions, the length of every edge is the
\* Euclidean distance of the smoothed positions of its parent and child and
\* the translation composed into its transform is their midpoint; the
\* 3-joint chain with smoothing 0 and positions (0,i,0) has edge lengths 1, 1.
C20_EdgeLengthAndMidpoint ==
    (call.op = "setJointPositions" /\ call.outcome = "applied") =>
       /\ \A s \in EdgeSlots(skeleton.jointConnectivity) :
             LET pjI == s[1]
                 cjI == skeleton.jointConnectivity[pjI][s[2]]
                 e == EdgeIndex(skeleton.jointConnectivity, pjI, s[2])
                 a == skeleton.jointPositions[pjI]
                 b == skeleton.jointPositions[cjI]
                 edgeRotMat == compose(defaultPos,
                                       quat2mat(EdgeRotation(skeleton, pjI, cjI)),
                                       ones3)
             IN /\ skeleton.edgeLengths[e] = Distance(a, b)
                /\ skeleton.edgeTransforms[e]
                      = transpose(matmul(edgeRotMat,
                                         matmul(skeleton.skelTransform,
                                                Translation(Midpoint(a, b)))))
       /\ (/\ skeleton.jointConnectivity = Chain3.jointConnectivity
           /\ skeleton.udateSmoothing = Zero
           /\ call.arg = PosChain)
             => skeleton.edgeLengths = (0 :> One @@ 1 :> One)

\* the chain example of C20
C20_Witness ==
    /\ call.op = "setJointPositions"
    /\ call.outcome = "applied"
    /\ call.arg = PosChain
    /\ skeleton.jointConnectivity = Chain3.jointConnectivity
    /\ skeleton.udateSmoothing = Zero
    /\ skeleton.jointPositions
          = List(<< <<Zero, Zero, Zero>>, <<Zero, One, Zero>>,
                    <<Zero, N(2), Zero>> >>)
    /\ skeleton.edgeLengths[0] = One
    /\ skeleton.edgeLengths[1] = One

\* the translation of a published (transposed) transform: its last row
PublishedTranslation(m) == <<m[4][1], m[4][2], m[4][3]>>

\* the translation of the root transform: its last column
RootTranslation(m) == <<m[1][4], m[2][4], m[3][4]>>

\* C21: after an applied update, a joint whose smoothed position is the
\* origin publishes a transform whose translation is the translation of the
\* root transform, whatever the root position and the joint's rotation.
C21_OriginJointCarriesRootTranslation ==
    (call.op \in Updates /\ call.outcome = "applied") =>
       \A jI \in Joints(skeleton) :
          skeleton.jointPositions[jI] = <<Zero, Zero, Zero>>
             => PublishedTranslation(skeleton.jointTransforms[jI])
                   = RootTranslation(skeleton.skelTransform)

\* row k of the selection is the raw row the k-th filter entry names
SelectedRows(raw, jointFilter) ==
    [k \in DOMAIN jointFilter |-> raw[jointFilter[k]]]

\* C26: filtering selects and reorders exactly N rows: an accepted update
\* stores N rows, the row of rig joint k is computed from the stored row k
\* and the raw row the k-th filter entry names and from nothing else, so
\* the raw rows the filter does not name have no influence on the pose.
C26_FilterSelectsRows ==
    [][Accepted =>
          /\ DOMAIN skeleton'.jointPositions = Joints(skeleton)
          /\ DOMAIN skeleton'.jointRotations = Joints(skeleton)
          /\ call'.op = "setJointPositions" =>
                \A k \in Joints(skeleton) :
                   skeleton'.jointPositions[k]
                      = VAdd(VScale(skeleton.jointPositions[k],
                                    skeleton.udateSmoothing),
                             VScale(call'.arg[skeleton.jointFilter[k]],
                                    Sub(One, skeleton.udateSmoothing)))
          /\ call'.op = "setJointRotations" =>
                skeleton'.jointRotations
                   = BlendRotations(skeleton,
                        applyCorrections(
                           SelectedRows(call'.arg,
                                        skeleton.jointFilter)).rotations)]_vars

\* the 28-joint rig after an unsmoothed position update: joint 27 holds raw
\* row 28, raw row 27 is dropped
C26_Witness ==
    /\ call.op = "setJointPositions" /\ call.outcome = "applied"
    /\ call.arg = PosDiag
    /\ skeleton.udateSmoothing = Zero
    /\ skeleton.jointCount = 28
    /\ skeleton.jointFilter[27] = 28
    /\ skeleton.jointPositions[27] = <<N(28), N(1), N(1)>>

\* C27: in setJointRotations the corrective rotation of each joint is
\* applied once, to the filtered input only and before the blend; every rig
\* joint has a correction entry, so with unit input and udateSmoothing = 0
\* no joint stores what the uncorrected input would have given; an update
\* that is not applied changes no stored state.
C27_EveryJointIsCorrectedOnce ==
    [][(IsUpdate /\ call'.op = "setJointRotations") =>
          /\ call'.outcome # "applied" => skeleton' = skeleton
          /\ call'.outcome = "applied" =>
                skeleton'.jointRotations
                   = BlendRotations(skeleton,
                        applyCorrections(
                           SelectedRows(call'.arg,
                                        skeleton.jointFilter)).rotations)
          /\ (/\ call'.outcome = "applied"
              /\ skeleton.udateSmoothing = Zero
              /\ UnitRows(call'.arg)) =>
                \A k \in Joints(skeleton) :
                   skeleton'.jointRotations[k]
                      # BlendRotations(skeleton,
                           SelectedRows(call'.arg, skeleton.jointFilter))[k]]_vars

\* the edges that get the extra correction
SpecialEdges == {<<0, 1>>, <<0, 6>>}

\* C28: the orientation of an edge is its parent joint's stored rotation
\* composed with the shared realignment; the edge correction comes between
\* the two exactly for the edges (0,1) and (0,6), and for no other edge.
C28_EdgeOrientation ==
    (call.op \in Updates /\ call.outcome = "applied") =>
       \A s \in EdgeSlots(skeleton.jointConnectivity) :
          LET pjI == s[1]
              cjI == skeleton.jointConnectivity[pjI][s[2]]
              e == EdgeIndex(skeleton.jointConnectivity, pjI, s[2])
              parentRot == skeleton.jointRotations[pjI]
              orientation ==
                  IF <<pjI, cjI>> \in SpecialEdges
                  THEN qmult(realign, qmult(hipEdgeCorrection, parentRot))
                  ELSE qmult(realign, parentRot)
          IN skeleton.edgeTransforms[e]
                = transpose(matmul(
                     compose(defaultPos, quat2mat(orientation), ones3),
                     matmul(skeleton.skelTransform,
                            Translation(Midpoint(skeleton.jointPositions[pjI],
                                                 skeleton.jointPositions[cjI])))))

\* the 28-joint rig after a rotation update: the edges (0,1) and (0,11)
\* leave the same joint with different orientations
C28_Witness ==
    /\ call.op = "setJointRotations" /\ call.outcome = "applied"
    /\ skeleton.jointCount = 28
    /\ quat2mat(EdgeRotation(skeleton, 0, 1))
          # quat2mat(EdgeRotation(skeleton, 0, 11))
    /\ quat2mat(EdgeRotation(skeleton, 0, 11))
          = quat2mat(qmult(realign, skeleton.jointRotations[0]))

\* C29: a rotation update never produces undefined values: after every
\* applied setJointRotations, whatever the input rows (all-zero rows
\* included), every component of every stored rotation is a number.
C29_StoredRotationsAreDefined ==
    (call.op = "setJointRotations" /\ call.outcome = "applied") =>
       \A k \in Joints(skeleton) :
          \A i \in 1 .. 4 : IsNum(skeleton.jointRotations[k][i])

\* C31: setPosition and setUpdateSmoothing leave the five arrays of the
\* pose and of its derivation unchanged; setPosition leaves the smoothing
\* factor and setUpdateSmoothing the root transforms unchanged; the joint
\* transforms are those of the current root transform when the next
\* accepted pose update returns.
C31_RootAndSmoothingSettersFrame ==
    [][/\ (ncalls' = ncalls + 1 /\ call'.op = "setPosition") =>
             /\ SameArrays(skeleton', skeleton)
             /\ skeleton'.udateSmoothing = skeleton.udateSmoothing
       /\ (ncalls' = ncalls + 1 /\ call'.op = "setUpdateSmoothing") =>
             /\ SameArrays(skeleton', skeleton)
             /\ skeleton'.skelTransform = skeleton.skelTransform
             /\ skeleton'.skelInvTransform = skeleton.skelInvTransform
       /\ Accepted =>
             \A jI \in Joints(skeleton') :
                skeleton'.jointTransforms[jI] = JointTransform(skeleton', jI)]_vars

\* the root has been moved to (1, 2, 3) after an update was applied: the
\* published transform of joint 0 is still the one of the old root
C31_Witness ==
    /\ call.op = "setPosition" /\ call.arg = <<N(1), N(2), N(3)>>
    /\ skeleton.jointTransforms[0] # zeros44
    /\ skeleton.jointTransforms[0] # JointTransform(skeleton, 0)

C33_ArrayShapesAreInvariant ==
    /\ skeleton.jointCount = ListLen(skeleton.jointFilter)
    /\ DOMAIN skeleton.jointPositions = Joints(skeleton)
    /\ \A j \in Joints(skeleton) : Len(skeleton.jointPositions[j]) = 3
    /\ DOMAIN skeleton.jointRotations = Joints(skeleton)
    /\ \A j \in Joints(skeleton) : Len(skeleton.jointRotations[j]) = 4
    /\ DOMAIN skeleton.jointTransforms = Joints(skeleton)
    /\ DOMAIN skeleton.edgeTransforms = 0 .. (skeleton.edgeCount - 1)
    /\ DOMAIN skeleton.edgeLengths = 0 .. (skeleton.edgeCount - 1)

\* setJointPositions has been called with a 2-column array on the 28-joint
\* rig after an earlier call: the stored pose still has 28 rows of 3
C33_Witness ==
    /\ call.op = "setJointPositions" /\ call.arg = PosTwoCols
    /\ call.mismatch /\ ncalls = 2
    /\ Shape(Filter(call.arg, skeleton.jointFilter)) = <<28, 2>>
    /\ Shape(skeleton.jointPositions) = <<28, 3>>

(***************************************************************************)
(* Properties of the threads                                               *)
(***************************************************************************)
\* the complete results of joint passes: the array as constructed and,
\* for every handler whose joint loop has run to its end, the array of the
\* entries that loop stored
JointPassResults ==
    {held.jointTransforms.returned}
       \cup {threads[t].out.jointTransforms : t \in
               {u \in DOMAIN threads :
                   DOMAIN threads[u].out.jointTransforms = Joints(skeleton)}}

\* the generations of the derived arrays: the arrays as constructed and
\* what every applied update stored
Generations ==
    {[a \in DOMAIN held |-> held[a].returned]}
       \cup {threads[t].out : t \in
               {u \in DOMAIN threads :
                   /\ threads[u].op \in Updates
                   /\ threads[u].outcome = "applied"}}

\* C1: the copy of jointTransforms a render pass takes is the complete
\* result of one joint pass, never a mixture of entries of two passes.
C1_NoTornJointTransforms ==
    render.pc # "idle" => render.jointTransforms \in JointPassResults

\* C2: the joint transforms and the edge transforms and lengths one render
\* pass uses come from the same generation (the same completed update, or
\* construction).
C2_RenderPassUsesOneGeneration ==
    render.pc = "draw" =>
       \E g \in Generations :
          /\ render.jointTransforms = g.jointTransforms
          /\ render.edgeTransforms = g.edgeTransforms
          /\ render.edgeLengths = g.edgeLengths


\* a handler thread has been started and has not ended
HandlerActive == \E t \in DOMAIN threads : threads[t].pc # "done"

\* C22: shutdown stops the update context first: once stop() has returned
\* no mocap handler runs any more, and the server thread started by start()
\* terminates in the end.
C22_StopEndsTheUpdateContext ==
    /\ [](server.stop = "returned" => ~HandlerActive)
    /\ (server.stop = "returned") ~> (server.loop = "ended")


\* C23: the render context never mutates the pose or the derived arrays: a
\* step of Visualization.render leaves every attribute of the skeleton, and
\* the array each attribute names, unchanged.
C23_RenderLeavesSkeletonUnchanged ==
    [][render' # render => skeleton' = skeleton /\ ident' = ident]_vars

\* a whole render pass has run after an applied position update
C23_Witness ==
    /\ render.passes = 1
    /\ \E t \in DOMAIN threads :
          /\ threads[t].op = "setJointPositions"
          /\ threads[t].outcome = "applied"


\* the rig definition a skeleton was constructed with
RigOf(sk) ==
    [jointFilter |-> sk.jointFilter, jointConnectivity |-> sk.jointConnectivity,
     jointCount |-> sk.jointCount, edgeCount |-> sk.edgeCount]

\* C24: the rig definition is immutable after load: no step of an update, of
\* a setter or of a render pass changes jointFilter, jointConnectivity,
\* jointCount or edgeCount.
C24_RigIsImmutable == [][RigOf(skeleton') = RigOf(skeleton)]_vars

\* a setter and an update have run, a render pass too
C24_Witness ==
    /\ render.passes = 1
    /\ \E t, u \in DOMAIN threads :
          /\ threads[t].op = "setUpdateSmoothing" /\ threads[t].pc = "done"
          /\ threads[u].op = "setJointPositions"
          /\ threads[u].outcome = "applied"
    /\ RigOf(skeleton) = [jointFilter |-> Chain3.jointFilter,
                          jointConnectivity |-> Chain3.jointConnectivity,
                          jointCount |-> 3, edgeCount |-> 2]


\* C25: readers never block writers: a handler that has started can always
\* take its next step and ends, whatever step the render pass is at, and a
\* render pass that has started can always take its next step and ends,
\* whatever step a handler is at.
C25_NeitherContextWaits ==
    /\ [](HandlerActive => ENABLED HandlerStep)
    /\ [](render.pc # "idle" => ENABLED RenderStep)
    /\ HandlerActive ~> ~HandlerActive
    /\ (render.pc # "idle") ~> (render.pc = "idle")

\* a handler is inside its joint loop while a render pass is between copies
C25_Witness ==
    /\ render.pc = "copyEdgeTransforms"
    /\ \E t \in DOMAIN threads : threads[t].pc = "joints" /\ threads[t].jI = 1


\* the skeleton of this behaviour as it was constructed, as far as the pose
\* goes (no handler changes the rig)
Constructed ==
    [skeleton EXCEPT
        !.jointPositions =
            Table([j \in Joints(skeleton) |->
                     (CHOOSE p \in InitPositions : TRUE)[j]]),
        !.udateSmoothing = Zero]

\* the call of one handler, made on its own
SerialStep(sk, th) ==
    CASE th.op = "setUpdateSmoothing" -> setUpdateSmoothing(sk, th.arg)
      [] th.op = "setPosition" -> setPosition(sk, th.arg)
      [] th.op = "setJointPositions" -> setJointPositions(sk, th.arg).sk
      [] th.op = "setJointRotations" -> setJointRotations(sk, th.arg).sk

\* the calls of the handlers order[i], order[i+1], ... made one after the other
RECURSIVE Serial(_, _, _)
Serial(sk, order, i) ==
    IF i > Len(order) THEN sk
    ELSE Serial(SerialStep(sk, threads[order[i]]), order, i + 1)

\* the orders in which the handlers can be taken
Orders ==
    {o \in [DOMAIN threads -> DOMAIN threads] :
        \A a, b \in DOMAIN threads : o[a] = o[b] => a = b}

\* every handler has ended and at least two of them applied a pose update
BurstHandled ==
    /\ \A t \in DOMAIN threads : threads[t].pc = "done"
    /\ \E t, u \in DOMAIN threads :
          /\ t # u
          /\ threads[t].op \in Updates /\ threads[t].outcome = "applied"
          /\ threads[u].op \in Updates /\ threads[u].outcome = "applied"

\* C30: when pose updates are handled concurrently, the final pose is the
\* pose some one-after-the-other order of the handled calls gives (no blend
\* is lost), and the derived arrays are the derivation of that final pose.
C30_ConcurrentUpdatesSerialise ==
    BurstHandled =>
       /\ \E o \in Orders :
             /\ Serial(Constructed, o, 1).jointPositions
                   = skeleton.jointPositions
             /\ Serial(Constructed, o, 1).jointRotations
                   = skeleton.jointRotations
       /\ IsDerived(skeleton)

(***************************************************************************)
(* Properties of the mocap handlers                                        *)
(***************************************************************************)
\* C34: a mocap pose handler calls the skeleton once with the remapped
\* array: setMocapJointPositions hands over rows (a1, a0, a2) of the
\* argument rows (a0, a1, a2), setMocapJointRotations rows (q0, q2, q1, q3)
\* of (q0, q1, q2, q3), and the skeleton after the message is the skeleton
\* after that one call; the two addresses of each handler are mapped to the
\* same handler, which does not read the address.
C34_HandlersRemapOnce ==
    [][ncalls' = ncalls + 1 =>
          LET args == call'.args
              handed == call'.arg
          IN /\ call'.op = dispatcher[call'.address]
             /\ AddressesOf("setMocapJointPositions")
                   = {"/mocap/joint/pos_world", "/mocap/0/joint/pos_world"}
             /\ AddressesOf("setMocapJointRotations")
                   = {"/mocap/joint/rot_world", "/mocap/0/joint/rot_world"}
             /\ (call'.op = "setMocapJointPositions" /\ Len(args) % 3 = 0) =>
                   /\ DOMAIN handed = 0 .. ((Len(args) \div 3) - 1)
                   /\ \A k \in DOMAIN handed :
                         handed[k] = <<args[3 * k + 2], args[3 * k + 1],
                                       args[3 * k + 3]>>
                   /\ skeleton' = setJointPositions(skeleton, handed).sk
             /\ (call'.op = "setMocapJointRotations" /\ Len(args) % 4 = 0) =>
                   /\ DOMAIN handed = 0 .. ((Len(args) \div 4) - 1)
                   /\ \A k \in DOMAIN handed :
                         handed[k] = <<args[4 * k + 1], args[4 * k + 3],
                                       args[4 * k + 2], args[4 * k + 4]>>
                   /\ skeleton' = setJointRotations(skeleton, handed).sk]_vars

\* a frame of positions (i, 1, i mod 3) sent to '/mocap/0/joint/pos_world'
\* has been applied: the skeleton was handed (1, i, i mod 3)
C34_Witness ==
    /\ call.op = "setMocapJointPositions"
    /\ call.address = "/mocap/0/joint/pos_world"
    /\ call.args = Flat(PosDiag, 3)
    /\ call.arg[2] = <<N(1), N(2), N(2)>>
    /\ call.outcome = "applied"

(***************************************************************************)
(* Properties of the Visualization                                         *)
(***************************************************************************)
\* the array each per-index setter writes
WrittenArray ==
    [ setJointPrimitive |-> "jointPrimitives", setJointSize |-> "jointSizes",
      setJointRounding |-> "jointRoundings",
      setJointSmoothing |-> "jointSmoothings",
      setEdgePrimitive |-> "edgePrimitives", setEdgeSize |-> "edgeSizes",
      setEdgeRounding |-> "edgeRoundings",
      setEdgeSmoothing |-> "edgeSmoothings" ]

\* C35: a per-index setter called with an index outside [0, count) of the
\* array it writes leaves every visualization array unchanged; called with
\* an index inside that range it changes the entry at that index of that
\* array and nothing else.
C35_IndexedSettersCheckTheIndex ==
    [][(ncalls' = ncalls + 1 /\ call'.op \in DOMAIN WrittenArray) =>
          LET a == WrittenArray[call'.op]
              index == call'.arg[1]
          IN IF index \in 0 .. (Rows(visualization[a]) - 1)
             THEN visualization'
                     = [visualization EXCEPT ![a][index] = call'.arg[2]]
             ELSE visualization' = visualization]_vars

\* the same for indices that are not negative
C35_HoldsFromZeroUp ==
    [][(ncalls' = ncalls + 1 /\ call'.op \in DOMAIN WrittenArray
        /\ call'.arg[1] >= 0) =>
          LET a == WrittenArray[call'.op]
              index == call'.arg[1]
          IN IF index \in 0 .. (Rows(visualization[a]) - 1)
             THEN visualization'
                     = [visualization EXCEPT ![a][index] = call'.arg[2]]
             ELSE visualization' = visualization]_vars

\* C36: the uniform loops of render end without an exception: each of the
\* eight arrays has an entry for every jI < jointCount or eI < edgeCount,
\* on every rig a Skeleton was constructed for.
C36_RenderReadsAreInBounds ==
    call.op = "render" =>
       /\ call.outcome = "applied"
       /\ \A rd \in renderReads(skeleton) :
             rd[2] \in DOMAIN visualization[rd[1]]

\* the same on the rigs that have no more edges than joints
C36_HoldsUpToJointCountEdges ==
    (call.op = "render" /\ skeleton.edgeCount <= skeleton.jointCount) =>
       /\ call.outcome = "applied"
       /\ \A rd \in renderReads(skeleton) :
             rd[2] \in DOMAIN visualization[rd[1]]

=============================================================================
